---- MODULE Spec2Model ----
(***************************************************************************)
(* Model of the jobly back end: the partial-update compiler                *)
(* (helpers/sql.js), the filter compilers and repositories of the Job and  *)
(* Company models, the GET /jobs route and the authorization middleware.   *)
(*                                                                         *)
(* JavaScript values are records [t, s, n, a]: t is the typeof-like tag,   *)
(* s the text of a string, n the number (1/0 for a boolean), a the         *)
(* elements of an array.  Objects are sequences of [k, v] entries with     *)
(* distinct keys, in the order Object.keys / for-in enumerate them (the    *)
(* insertion order of their string keys).  SQL text is kept as text.       *)
(***************************************************************************)
EXTENDS Integers, Sequences, FiniteSets, TLC

VARIABLES jobs, companies, nextId, call, ret, sent, inflight

vars == <<jobs, companies, nextId, call, ret, sent, inflight>>

---------------------------------------------------------------------------
(* Bounds                                                                  *)

MaxKeys == 3

MaxJobs == 2

---------------------------------------------------------------------------
(* JavaScript values                                                       *)

JUndefined == [t |-> "undefined", s |-> "", n |-> 0, a |-> <<>>]

JNull == [t |-> "null", s |-> "", n |-> 0, a |-> <<>>]

JBool(b) == [t |-> "boolean", s |-> "", n |-> IF b THEN 1 ELSE 0, a |-> <<>>]

JNum(i) == [t |-> "number", s |-> "", n |-> i, a |-> <<>>]

JStr(str) == [t |-> "string", s |-> str, n |-> 0, a |-> <<>>]

JArr(seq) == [t |-> "array", s |-> "", n |-> 0, a |-> seq]

\* An object held as a value: a carries its entries.
JObj(obj) == [t |-> "object", s |-> "", n |-> 0, a |-> obj]

JNaN == [t |-> "number", s |-> "NaN", n |-> 0, a |-> <<>>]

\* ToBoolean: the test of `if (x)`, `x || y`, `x ? a : b`, `!x`.
Truthy(v) ==
  CASE v.t = "undefined" -> FALSE
    [] v.t = "null" -> FALSE
    [] v.t = "boolean" -> v.n = 1
    [] v.t = "number" -> v.n # 0
    [] v.t = "string" -> v.s # ""
    [] OTHER -> TRUE

\* ToString of a primitive, as a template literal `${v}` renders it.
TemplateStr(v) ==
  CASE v.t = "undefined" -> "undefined"
    [] v.t = "null" -> "null"
    [] v.t = "boolean" -> (IF v.n = 1 THEN "true" ELSE "false")
    [] v.t = "number" -> (IF v = JNaN THEN "NaN" ELSE ToString(v.n))
    [] OTHER -> v.s

\* Object.keys(obj)
ObjectKeys(obj) == [i \in 1..Len(obj) |-> obj[i].k]

\* Object.values(obj)
ObjectValues(obj) == [i \in 1..Len(obj) |-> obj[i].v]

HasKey(obj, key) == \E i \in 1..Len(obj) : obj[i].k = key

\* obj[key]: the entry's value, undefined when the object has no such key.
Get(obj, key) ==
  IF HasKey(obj, key)
    THEN obj[CHOOSE i \in 1..Len(obj) : obj[i].k = key].v
    ELSE JUndefined

\* v?.key
OptGet(v, key) == IF v.t = "object" THEN Get(v.a, key) ELSE JUndefined

\* delete obj[key]
Delete(obj, key) == SelectSeq(obj, LAMBDA e : e.k # key)

\* obj[key] = v: an existing key keeps its position, a new key goes last.
Put(obj, key, v) ==
  IF HasKey(obj, key)
    THEN [i \in 1..Len(obj) |->
            IF obj[i].k = key THEN [k |-> key, v |-> v] ELSE obj[i]]
    ELSE Append(obj, [k |-> key, v |-> v])

\* Array.prototype.join on an array of strings.
RECURSIVE Join(_, _)
Join(strs, sep) ==
  IF Len(strs) = 0 THEN ""
  ELSE IF Len(strs) = 1 THEN strs[1]
  ELSE strs[1] \o sep \o Join(Tail(strs), sep)

---------------------------------------------------------------------------
(* helpers/sql.js                                                          *)

\* ColFragment numbering the placeholders from zero.
ColFragment_zeroBased(colName, idx, jsToSql) ==
  "\"" \o (IF Truthy(Get(jsToSql, colName))
             THEN TemplateStr(Get(jsToSql, colName))
             ELSE colName)
       \o "\"=$" \o ToString(idx)

\* One element of keys.map(...): `"${jsToSql[colName] || colName}"=$${idx + 1}`
\* with idx the zero-based index.
ColFragment(colName, idx, jsToSql) ==
  "\"" \o (IF Truthy(Get(jsToSql, colName))
             THEN TemplateStr(Get(jsToSql, colName))
             ELSE colName)
       \o "\"=$" \o ToString(idx + 1)

\* sqlForPartialUpdate without the test for an empty payload.
sqlForPartialUpdate_noEmptyTest(dataToUpdate, jsToSql) ==
  LET keys == ObjectKeys(dataToUpdate)
      cols == [i \in 1..Len(keys) |-> ColFragment(keys[i], i - 1, jsToSql)]
  IN  [err |-> "",
       setCols |-> Join(cols, ", "),
       values |-> ObjectValues(dataToUpdate)]

\* sqlForPartialUpdate(dataToUpdate, jsToSql): err is the class of the
\* error thrown, "" when the call returns.
sqlForPartialUpdate(dataToUpdate, jsToSql) ==
  LET keys == ObjectKeys(dataToUpdate)
      cols == [i \in 1..Len(keys) |-> ColFragment(keys[i], i - 1, jsToSql)]
  IN  IF Len(keys) = 0
        THEN [err |-> "BadRequestError", setCols |-> "", values |-> <<>>]
        ELSE [err |-> "",
              setCols |-> Join(cols, ", "),
              values |-> ObjectValues(dataToUpdate)]

---------------------------------------------------------------------------
(* Filter compilers of the two models                                      *)

\* Job.formatWhereCmds with the placeholders written out as in its doc
\* comment ($1, $2, $3) instead of counted.
Job_formatWhereCmds_fixedIdx(filters) ==
  IF Len(ObjectKeys(filters)) = 0
    THEN [sqlCmd |-> JNull, values |-> JNull]
    ELSE
      LET title == Get(filters, "title")
          minSalary == Get(filters, "minSalary")
          hasEquity == Get(filters, "hasEquity")
          c1 == IF Truthy(title) THEN <<"title ILIKE $1">> ELSE <<>>
          v1 == IF Truthy(title)
                  THEN <<JStr("%" \o TemplateStr(title) \o "%")>>
                  ELSE <<>>
          c2 == IF Truthy(minSalary) THEN Append(c1, "salary >= $2") ELSE c1
          v2 == IF Truthy(minSalary) THEN Append(v1, minSalary) ELSE v1
          c3 == IF Truthy(hasEquity) THEN Append(c2, "equity > $3") ELSE c2
          v3 == IF Truthy(hasEquity) THEN Append(v2, JNum(0)) ELSE v2
      IN  [sqlCmd |-> JStr("WHERE " \o Join(c3, " AND ")),
           values |-> JArr(v3)]

\* Job.formatWhereCmds(filters): the three `if` blocks push onto conditions
\* and values in turn; c0/v0, c1/v1, ... are the arrays after each block.
Job_formatWhereCmds(filters) ==
  IF Len(ObjectKeys(filters)) = 0
    THEN [sqlCmd |-> JNull, values |-> JNull]
    ELSE
      LET title == Get(filters, "title")
          minSalary == Get(filters, "minSalary")
          hasEquity == Get(filters, "hasEquity")
          c0 == <<>>
          v0 == <<>>
          c1 == IF Truthy(title)
                  THEN Append(c0, "title ILIKE $" \o ToString(Len(c0) + 1))
                  ELSE c0
          v1 == IF Truthy(title)
                  THEN Append(v0, JStr("%" \o TemplateStr(title) \o "%"))
                  ELSE v0
          c2 == IF Truthy(minSalary)
                  THEN Append(c1, "salary >= $" \o ToString(Len(c1) + 1))
                  ELSE c1
          v2 == IF Truthy(minSalary) THEN Append(v1, minSalary) ELSE v1
          c3 == IF Truthy(hasEquity)
                  THEN Append(c2, "equity > $" \o ToString(Len(c2) + 1))
                  ELSE c2
          v3 == IF Truthy(hasEquity) THEN Append(v2, JNum(0)) ELSE v2
      IN  [sqlCmd |-> JStr("WHERE " \o Join(c3, " AND ")),
           values |-> JArr(v3)]

\* The body of Company.formatWhereCmds' `for (const filter in filters)`
\* loop, run over the entries from index i on; acc holds conditions and
\* values as built so far.
RECURSIVE Company_whereLoop(_, _, _)
Company_whereLoop(filters, i, acc) ==
  IF i > Len(filters) THEN acc
  ELSE
    LET filter == filters[i].k
        value == filters[i].v
        ph == "$" \o ToString(Len(acc.conditions) + 1)
        next ==
          IF filter = "nameLike"
            THEN [conditions |-> Append(acc.conditions, "name ILIKE " \o ph),
                  values |-> Append(acc.values,
                                    JStr("%" \o TemplateStr(value) \o "%"))]
          ELSE IF filter = "minEmployees"
            THEN [conditions |->
                    Append(acc.conditions, "num_employees >= " \o ph),
                  values |-> Append(acc.values, value)]
          ELSE [conditions |->
                  Append(acc.conditions, "num_employees <= " \o ph),
                values |-> Append(acc.values, value)]
    IN  Company_whereLoop(filters, i + 1, next)

\* Company.formatWhereCmds without the early return for no filters.
Company_formatWhereCmds_noEarlyReturn(filters) ==
  LET acc == Company_whereLoop(filters, 1,
                               [conditions |-> <<>>, values |-> <<>>])
  IN  [sqlCmd |-> JStr("WHERE " \o Join(acc.conditions, " AND ")),
       values |-> JArr(acc.values)]

\* Company.formatWhereCmds(filters)
Company_formatWhereCmds(filters) ==
  IF Len(ObjectKeys(filters)) = 0
    THEN [sqlCmd |-> JNull, values |-> JNull]
    ELSE
      LET acc == Company_whereLoop(filters, 1,
                                   [conditions |-> <<>>, values |-> <<>>])
      IN  [sqlCmd |-> JStr("WHERE " \o Join(acc.conditions, " AND ")),
           values |-> JArr(acc.values)]

\* The for-in loop of formatWhereCmds in helpers/sql.js over the entries
\* i.. of filters, conditions holding what was pushed so far.
RECURSIVE formatWhereCmds_loop(_, _, _)
formatWhereCmds_loop(filters, i, conditions) ==
  IF i > Len(filters) THEN conditions
  ELSE
    LET and == IF Len(conditions) > 0 THEN "AND " ELSE ""
        where == IF Len(conditions) > 0 THEN "" ELSE "WHERE "
        filter == filters[i].k
        criteria == filters[i].v
        pushed ==
          IF ~Truthy(criteria) THEN conditions
          ELSE IF filter = "nameLike"
            THEN Append(conditions, where \o and \o "name ILIKE '%"
                                      \o TemplateStr(criteria) \o "%'")
          ELSE IF filter = "minEmployees"
            THEN Append(conditions, where \o and \o "num_employees >= "
                                      \o TemplateStr(criteria))
          ELSE IF filter = "maxEmployees"
            THEN Append(conditions, where \o and \o "num_employees <= "
                                      \o TemplateStr(criteria))
          ELSE conditions
    IN  formatWhereCmds_loop(filters, i + 1, pushed)

\* formatWhereCmds(filters) of helpers/sql.js
formatWhereCmds(filters) ==
  LET conditions == formatWhereCmds_loop(filters, 1, <<>>)
  IN  [conditions |-> conditions,
       sqlIdx |-> Join([i \in 1..Len(conditions) |-> "$" \o ToString(i)], " ")]

---------------------------------------------------------------------------
(* The store: what db.query does with the statements the models send.      *)
(* A statement is [text, params]; the store reads the clause text back.    *)

StartsWith(str, prefix) ==
  Len(str) >= Len(prefix) /\ SubSeq(str, 1, Len(prefix)) = prefix

\* str without its first n characters
Drop(str, n) == SubSeq(str, n + 1, Len(str))

Digits == {"1", "2", "3", "4", "5", "6", "7", "8", "9"}

DigitValue(ch) == CHOOSE d \in 1..9 : ToString(d) = ch

\* The comparisons a WHERE clause of the two findAll statements can hold.
WhereAtoms ==
  { [text |-> "title ILIKE $", col |-> "title", cmp |-> "ILIKE"],
    [text |-> "salary >= $", col |-> "salary", cmp |-> ">="],
    [text |-> "equity > $", col |-> "equity", cmp |-> ">"],
    [text |-> "name ILIKE $", col |-> "name", cmp |-> "ILIKE"],
    [text |-> "num_employees >= $", col |-> "numEmployees", cmp |-> ">="],
    [text |-> "num_employees <= $", col |-> "numEmployees", cmp |-> "<="] }

SyntaxError == [ok |-> FALSE, conds |-> <<>>]

\* Reads `<comparison> $n { AND <comparison> $n }` up to the end of str.
RECURSIVE ParseConds(_)
ParseConds(str) ==
  IF \E at \in WhereAtoms :
       /\ StartsWith(str, at.text)
       /\ Len(str) > Len(at.text)
       /\ SubSeq(str, Len(at.text) + 1, Len(at.text) + 1) \in Digits
    THEN
      LET at == CHOOSE x \in WhereAtoms : StartsWith(str, x.text)
          ph == DigitValue(SubSeq(str, Len(at.text) + 1, Len(at.text) + 1))
          cond == [col |-> at.col, cmp |-> at.cmp, ph |-> ph]
          rest == Drop(str, Len(at.text) + 1)
      IN  IF rest = "" THEN [ok |-> TRUE, conds |-> <<cond>>]
          ELSE IF StartsWith(rest, " AND ")
            THEN LET more == ParseConds(Drop(rest, 5))
                 IN  IF more.ok
                       THEN [ok |-> TRUE, conds |-> <<cond>> \o more.conds]
                       ELSE SyntaxError
          ELSE SyntaxError
    ELSE SyntaxError

\* Reads the text spliced in between the FROM clause and ORDER BY: nothing,
\* or WHERE followed by at least one comparison.
ParseWhere(str) ==
  IF str = "" THEN [ok |-> TRUE, conds |-> <<>>]
  ELSE IF StartsWith(str, "WHERE ") THEN ParseConds(Drop(str, 6))
  ELSE SyntaxError

\* Lower-casing of the letters that occur in stored and searched text.
LowerChar(ch) ==
  CASE ch = "A" -> "a"
    [] ch = "B" -> "b"
    [] ch = "C" -> "c"
    [] OTHER -> ch

RECURSIVE Lower(_)
Lower(str) ==
  IF str = "" THEN ""
  ELSE LowerChar(SubSeq(str, 1, 1)) \o Lower(Drop(str, 1))

Contains(str, sub) ==
  \E i \in 0..(Len(str) - Len(sub)) : SubSeq(str, i + 1, i + Len(sub)) = sub

\* text ILIKE pattern, for the patterns %x% the compilers build.
ILike(text, pattern) ==
  /\ Len(pattern) >= 2
  /\ Contains(Lower(text), Lower(SubSeq(pattern, 2, Len(pattern) - 1)))

\* equity is a NUMERIC column, handed back as text.
EquityPositive(e) == e.t = "string" /\ e.s \notin {"0", "0.0"}

\* One comparison of a WHERE clause on one row; a NULL operand makes the
\* comparison unknown, which selects nothing.
CondHolds(cond, row, params) ==
  LET p == params[cond.ph]
      x == row[cond.col]
  IN  CASE cond.cmp = "ILIKE" -> p.t = "string" /\ ILike(x.s, p.s)
        [] cond.col = "equity" ->
             /\ p.t = "number"
             /\ x.t = "string"
             /\ IF p.n = 0 THEN EquityPositive(x) ELSE FALSE
        [] cond.cmp = ">=" -> p.t = "number" /\ x.t = "number" /\ x.n >= p.n
        [] OTHER -> p.t = "number" /\ x.t = "number" /\ x.n <= p.n

\* The parameter array as the driver binds it: none when values is null.
Bound(params) == IF params.t = "array" THEN params.a ELSE <<>>

\* A statement is rejected when its text does not parse or when a
\* placeholder has no parameter or a parameter has no placeholder.
WhereRejected(parsed, params) ==
  \/ ~parsed.ok
  \/ { parsed.conds[i].ph : i \in 1..Len(parsed.conds) }
       # 1..Len(Bound(params))

\* The rows of a table that satisfy every comparison.
Matching(rows, parsed, params) ==
  { r \in rows :
      \A i \in 1..Len(parsed.conds) :
        CondHolds(parsed.conds[i], r, Bound(params)) }

\* Rank of a character in the collation of stored text (digits, then
\* lower-case letters).
Alphabet == "0123456789abcdefghijklmnopqrstuvwxyz"

CharRank(ch) == CHOOSE i \in 1..Len(Alphabet) : SubSeq(Alphabet, i, i) = ch

\* The orders ORDER BY col may hand a set of rows back in: ascending by
\* the text column col, equal texts in any order.
TextLess(x, y) ==
  \E i \in 1..Len(y) :
     /\ \A j \in 1..(i - 1) : j <= Len(x) /\ SubSeq(x, j, j) = SubSeq(y, j, j)
     /\ \/ Len(x) < i
        \/ CharRank(SubSeq(x, i, i)) < CharRank(SubSeq(y, i, i))

OrderedBy(rows, col) ==
  { s \in [1..Cardinality(rows) -> rows] :
      /\ \A i, j \in 1..Cardinality(rows) : i # j => s[i] # s[j]
      /\ \A i, j \in 1..Cardinality(rows) :
           i < j => ~TextLess(s[j][col].s, s[i][col].s) }

\* Position of the first occurrence of the character ch in str at or after
\* position i, 0 when there is none.
RECURSIVE IndexOf(_, _, _)
IndexOf(str, ch, i) ==
  IF i > Len(str) THEN 0
  ELSE IF SubSeq(str, i, i) = ch THEN i
  ELSE IndexOf(str, ch, i + 1)

\* The columns of the two tables and the row attribute each one holds.
Columns(table) ==
  IF table = "jobs"
    THEN { [name |-> "id", attr |-> "id"],
           [name |-> "title", attr |-> "title"],
           [name |-> "salary", attr |-> "salary"],
           [name |-> "equity", attr |-> "equity"],
           [name |-> "company_handle", attr |-> "companyHandle"] }
    ELSE { [name |-> "handle", attr |-> "handle"],
           [name |-> "name", attr |-> "name"],
           [name |-> "description", attr |-> "description"],
           [name |-> "num_employees", attr |-> "numEmployees"],
           [name |-> "logo_url", attr |-> "logoUrl"] }

BadSet == [ok |-> FALSE, sets |-> <<>>, rest |-> ""]

\* Reads the SET list `"col"=$n {, "col"=$n}`; rest is the text after it.
RECURSIVE ParseSet(_)
ParseSet(str) ==
  LET q == IndexOf(str, "\"", 2)
  IN  IF /\ StartsWith(str, "\"")
         /\ q > 2
         /\ StartsWith(Drop(str, q), "=$")
         /\ Len(str) >= q + 3
         /\ SubSeq(str, q + 3, q + 3) \in Digits
        THEN
          LET one == [col |-> SubSeq(str, 2, q - 1),
                      ph |-> DigitValue(SubSeq(str, q + 3, q + 3))]
              rest == Drop(str, q + 3)
          IN  IF StartsWith(rest, ", ")
                THEN LET more == ParseSet(Drop(rest, 2))
                     IN  IF more.ok
                           THEN [ok |-> TRUE, sets |-> <<one>> \o more.sets,
                                 rest |-> more.rest]
                           ELSE BadSet
                ELSE [ok |-> TRUE, sets |-> <<one>>, rest |-> rest]
        ELSE BadSet

\* The row after the assignments sets[i..] are applied to it, each one
\* storing the parameter its placeholder names.
RECURSIVE Assign(_, _, _, _, _)
Assign(row, sets, i, params, table) ==
  IF i > Len(sets) THEN row
  ELSE
    LET c == CHOOSE x \in Columns(table) : x.name = sets[i].col
    IN  Assign([row EXCEPT ![c.attr] = params[sets[i].ph]],
               sets, i + 1, params, table)

\* Statement texts of models/job.js.
JobInsertSql ==
  "INSERT INTO jobs(title, salary, equity, company_handle) "
    \o "VALUES ($1, $2, $3, $4) "
    \o "RETURNING id, title, salary, equity, company_handle AS \"companyHandle\""

JobSelectHead ==
  "SELECT j.id, j.title, j.salary, j.equity, "
    \o "j.company_handle AS \"companyHandle\", c.name AS \"companyName\" "
    \o "FROM jobs AS j JOIN companies AS c ON c.handle = j.company_handle "

JobSelectTail == " ORDER BY title"

JobUpdateHead == "UPDATE jobs SET "

JobUpdateTail == " RETURNING id, title, salary, equity"

\* Statement texts of models/company.js.
CompanyCheckSql == "SELECT handle FROM companies WHERE handle = $1"

CompanyInsertSql ==
  "INSERT INTO companies(handle, name, description, num_employees, logo_url) "
    \o "VALUES ($1, $2, $3, $4, $5) "
    \o "RETURNING handle, name, description, "
    \o "num_employees AS \"numEmployees\", logo_url AS \"logoUrl\""

CompanySelectHead ==
  "SELECT handle, name, description, num_employees AS \"numEmployees\", "
    \o "logo_url AS \"logoUrl\" FROM companies "

CompanySelectTail == " ORDER BY name"

CompanyUpdateHead == "UPDATE companies SET "

CompanyUpdateTail ==
  " RETURNING handle, name, description, "
    \o "num_employees AS \"numEmployees\", logo_url AS \"logoUrl\""

JobGetSql ==
  "SELECT id, title, salary, equity, company_handle AS \"companyHandle\" "
    \o "FROM jobs WHERE id = $1"

JobCompanySql ==
  "SELECT name, num_employees AS \"numEmployees\", description, "
    \o "logo_url AS \"logoUrl\" FROM companies WHERE handle = $1"

JobDeleteSql == "DELETE FROM jobs WHERE id = $1 RETURNING id"

CompanyGetSql ==
  "SELECT handle, name, description, num_employees AS \"numEmployees\", "
    \o "logo_url AS \"logoUrl\" FROM companies WHERE handle = $1"

CompanyJobsSql ==
  "Select id, title, salary, equity, company_handle AS \"companyHandle\" "
    \o "FROM jobs WHERE company_handle = $1"

CompanyDeleteSql == "DELETE FROM companies WHERE handle = $1 RETURNING handle"

EndsWith(str, suffix) ==
  /\ Len(str) >= Len(suffix)
  /\ SubSeq(str, Len(str) - Len(suffix) + 1, Len(str)) = suffix

\* str without the prefix head and the suffix tail
Between(str, head, tail) ==
  SubSeq(str, Len(head) + 1, Len(str) - Len(tail))

\* ToNumber, for the values a filter holds; nan marks NaN.
ToNumber(v) ==
  CASE v.t = "undefined" -> [nan |-> TRUE, n |-> 0]
    [] v.t = "null" -> [nan |-> FALSE, n |-> 0]
    [] v.t = "string" ->
         IF v.s = "" THEN [nan |-> FALSE, n |-> 0]
         ELSE IF \E d \in 0..9 : ToString(d) = v.s
           THEN [nan |-> FALSE, n |-> CHOOSE d \in 0..9 : ToString(d) = v.s]
         ELSE [nan |-> TRUE, n |-> 0]
    [] OTHER -> [nan |-> v = JNaN, n |-> v.n]

\* Number(v)
Number(v) == IF ToNumber(v).nan THEN JNaN ELSE JNum(ToNumber(v).n)

Failed(db) == [err |-> "StoreError", rows |-> <<>>, db |-> db]

Done(rows, db) == [err |-> "", rows |-> rows, db |-> db]

\* Primary keys are unique and every job belongs to a stored company.
ConstraintsHold(db) ==
  /\ \A r1, r2 \in db.jobs : r1.id = r2.id => r1 = r2
  /\ \A r1, r2 \in db.companies : r1.handle = r2.handle => r1 = r2
  /\ \A r \in db.jobs : \E c \in db.companies : c.handle = r.companyHandle

\* The jobs joined with their companies, as the SELECT of Job.findAll
\* projects them.
JoinedJobs(db) ==
  { [id |-> j.id, title |-> j.title, salary |-> j.salary,
     equity |-> j.equity, companyHandle |-> j.companyHandle,
     companyName |-> c.name] :
      <<j, c>> \in { x \in db.jobs \X db.companies :
                       x[2].handle = x[1].companyHandle } }

\* SELECT ... <where> ORDER BY col over rows.
DbSelect(rows, where, col, params, db) ==
  LET parsed == ParseWhere(where)
  IN  IF WhereRejected(parsed, params)
        THEN {Failed(db)}
        ELSE { Done(s, db) : s \in OrderedBy(Matching(rows, parsed, params), col) }

\* The value a key parameter is compared as: jobs.id is an integer column,
\* so text is read as a number.
KeyValue(keyAttr, v) ==
  IF keyAttr = "id" /\ v.t = "string" THEN Number(v) ELSE v

\* UPDATE table SET <sets> WHERE keyCol = $n RETURNING <proj>; body is the
\* text between the SET keyword and RETURNING.
DbUpdate(table, keyAttr, keyText, body, proj, params, db) ==
  LET parsed == ParseSet(body)
      p == Bound(params)
      rest == parsed.rest
      textOk == /\ parsed.ok
                /\ StartsWith(rest, keyText)
                /\ Len(rest) = Len(keyText) + 1
                /\ SubSeq(rest, Len(rest), Len(rest)) \in Digits
      keyPh == DigitValue(SubSeq(rest, Len(rest), Len(rest)))
      phs == { parsed.sets[i].ph : i \in 1..Len(parsed.sets) } \cup {keyPh}
      colsOk == /\ \A i \in 1..Len(parsed.sets) :
                     \E c \in Columns(table) : c.name = parsed.sets[i].col
                /\ \A i, j \in 1..Len(parsed.sets) :
                     i # j => parsed.sets[i].col # parsed.sets[j].col
      old == IF table = "jobs" THEN db.jobs ELSE db.companies
      hit == { r \in old : r[keyAttr] = KeyValue(keyAttr, p[keyPh]) }
      new == { IF r \in hit THEN Assign(r, parsed.sets, 1, p, table) ELSE r :
               r \in old }
      db2 == IF table = "jobs" THEN [db EXCEPT !.jobs = new]
                               ELSE [db EXCEPT !.companies = new]
      out == { [a \in proj |-> Assign(r, parsed.sets, 1, p, table)[a]] :
               r \in hit }
  IN  IF ~textOk THEN {Failed(db)}
      ELSE IF phs # 1..Len(p) \/ ~colsOk THEN {Failed(db)}
      ELSE IF KeyValue(keyAttr, p[keyPh]) = JNaN THEN {Failed(db)}
      ELSE IF Cardinality(new) # Cardinality(old) \/ ~ConstraintsHold(db2)
        THEN {Failed(db)}
      ELSE { Done(IF out = {} THEN <<>> ELSE <<CHOOSE r \in out : TRUE>>, db2) }

\* The orders a SELECT without ORDER BY may hand a set of rows back in.
InAnyOrder(rows) ==
  { s \in [1..Cardinality(rows) -> rows] :
      \A i, j \in 1..Cardinality(rows) : i # j => s[i] # s[j] }

\* SELECT <proj> FROM table WHERE keyCol = $1
DbSelectByKey(rows, keyAttr, proj, params, db) ==
  LET p == Bound(params)
      hit == { [a \in proj |-> r[a]] :
               r \in { x \in rows : x[keyAttr] = KeyValue(keyAttr, p[1]) } }
  IN  IF Len(p) # 1 THEN {Failed(db)}
      ELSE IF KeyValue(keyAttr, p[1]) = JNaN THEN {Failed(db)}
      ELSE { Done(s, db) : s \in InAnyOrder(hit) }

\* DELETE FROM table WHERE keyCol = $1 RETURNING keyCol.  The rows that
\* refer to a deleted company either make the store refuse the statement
\* or are deleted with it, as the schema's foreign key says.
DbDelete(table, keyAttr, params, db) ==
  LET p == Bound(params)
      old == IF table = "jobs" THEN db.jobs ELSE db.companies
      hit == { r \in old : r[keyAttr] = KeyValue(keyAttr, p[1]) }
      owned == IF table = "jobs" THEN {}
               ELSE { j \in db.jobs :
                        \E c \in hit : j.companyHandle = c.handle }
      db2 == IF table = "jobs"
               THEN [db EXCEPT !.jobs = old \ hit]
               ELSE [db EXCEPT !.companies = old \ hit,
                               !.jobs = db.jobs \ owned]
      out == { [a \in {keyAttr} |-> r[a]] : r \in hit }
  IN  IF Len(p) # 1 THEN {Failed(db)}
      ELSE IF KeyValue(keyAttr, p[1]) = JNaN THEN {Failed(db)}
      ELSE { Done(s, db2) : s \in InAnyOrder(out) }
             \cup (IF owned # {} THEN {Failed(db)} ELSE {})

\* db.query(text, params) on the store db: the possible outcomes, each the
\* error raised ("" for none), the rows handed back and the store after.
DbQuery(stmt, db) ==
  LET text == stmt.text
      p == Bound(stmt.params)
  IN  IF text = JobInsertSql THEN
        LET row == [id |-> JNum(db.nextId), title |-> p[1], salary |-> p[2],
                    equity |-> p[3], companyHandle |-> p[4]]
            used == [db EXCEPT !.nextId = db.nextId + 1]
            db2 == [used EXCEPT !.jobs = db.jobs \cup {row}]
        IN  IF Len(p) # 4 THEN {Failed(db)}
            ELSE IF ~ConstraintsHold(db2) THEN {Failed(used)}
            ELSE {Done(<<row>>, db2)}
      ELSE IF StartsWith(text, JobSelectHead) /\ EndsWith(text, JobSelectTail) THEN
        DbSelect(JoinedJobs(db), Between(text, JobSelectHead, JobSelectTail),
                 "title", stmt.params, db)
      ELSE IF StartsWith(text, JobUpdateHead) /\ EndsWith(text, JobUpdateTail) THEN
        DbUpdate("jobs", "id", " WHERE id = $",
                 Between(text, JobUpdateHead, JobUpdateTail),
                 {"id", "title", "salary", "equity"}, stmt.params, db)
      ELSE IF text = CompanyCheckSql THEN
        IF Len(p) # 1 THEN {Failed(db)}
        ELSE LET hit == { [handle |-> c.handle] :
                          c \in { x \in db.companies : x.handle = p[1] } }
             IN  { Done(IF hit = {} THEN <<>> ELSE <<CHOOSE r \in hit : TRUE>>,
                        db) }
      ELSE IF text = CompanyInsertSql THEN
        LET row == [handle |-> p[1], name |-> p[2], description |-> p[3],
                    numEmployees |-> p[4], logoUrl |-> p[5]]
            db2 == [db EXCEPT !.companies = db.companies \cup {row}]
        IN  IF Len(p) # 5 THEN {Failed(db)}
            ELSE IF row \in db.companies \/ ~ConstraintsHold(db2)
              THEN {Failed(db)}
            ELSE {Done(<<row>>, db2)}
      ELSE IF StartsWith(text, CompanySelectHead)
                /\ EndsWith(text, CompanySelectTail) THEN
        DbSelect(db.companies,
                 Between(text, CompanySelectHead, CompanySelectTail),
                 "name", stmt.params, db)
      ELSE IF StartsWith(text, CompanyUpdateHead)
                /\ EndsWith(text, CompanyUpdateTail) THEN
        DbUpdate("companies", "handle", " WHERE handle = $",
                 Between(text, CompanyUpdateHead, CompanyUpdateTail),
                 {"handle", "name", "description", "numEmployees", "logoUrl"},
                 stmt.params, db)
      ELSE IF text = JobGetSql THEN
        DbSelectByKey(db.jobs, "id",
                      {"id", "title", "salary", "equity", "companyHandle"},
                      stmt.params, db)
      ELSE IF text = JobCompanySql THEN
        DbSelectByKey(db.companies, "handle",
                      {"name", "numEmployees", "description", "logoUrl"},
                      stmt.params, db)
      ELSE IF text = JobDeleteSql THEN DbDelete("jobs", "id", stmt.params, db)
      ELSE IF text = CompanyGetSql THEN
        DbSelectByKey(db.companies, "handle",
                      {"handle", "name", "description", "numEmployees",
                       "logoUrl"},
                      stmt.params, db)
      ELSE IF text = CompanyJobsSql THEN
        DbSelectByKey(db.jobs, "companyHandle",
                      {"id", "title", "salary", "equity", "companyHandle"},
                      stmt.params, db)
      ELSE IF text = CompanyDeleteSql THEN
        DbDelete("companies", "handle", stmt.params, db)
      ELSE {Failed(db)}

---------------------------------------------------------------------------
(* The repositories.  Each operation is given its arguments and the store  *)
(* and yields its possible outcomes: what the call returns or throws, the  *)
(* statements it sent, and the store afterwards.                           *)

\* What a call has come to: not run yet, returned a value, threw an error.
Pending == [state |-> "pending"]

Returned(x) == [state |-> "returned", value |-> x]

Threw(e) == [state |-> "threw", err |-> e]

Outcome(r, stmts, db) == [ret |-> r, sent |-> stmts, db |-> db]

Stmt(text, params) == [text |-> text, params |-> params]

\* Job.create({ title, salary, equity, companyHandle })
Job_create(data, db) ==
  LET stmt == Stmt(JobInsertSql,
                   JArr(<<Get(data, "title"), Get(data, "salary"),
                          Get(data, "equity"), Get(data, "companyHandle")>>))
  IN  { Outcome(IF r.err # "" THEN Threw(r.err) ELSE Returned(r.rows[1]),
                <<stmt>>, r.db) : r \in DbQuery(stmt, db) }

\* Job.findAll(filters)
Job_findAll(filters, db) ==
  LET w == Job_formatWhereCmds(filters)
      querySql == JobSelectHead
                    \o (IF Truthy(w.sqlCmd) THEN w.sqlCmd.s ELSE "")
                    \o JobSelectTail
      stmt == Stmt(querySql, w.values)
  IN  { Outcome(IF r.err # "" THEN Threw(r.err) ELSE Returned(r.rows),
                <<stmt>>, r.db) : r \in DbQuery(stmt, db) }

\* Job.update binding the id first and the values after it.
Job_update_keyFirst(id, data, db) ==
  LET c == sqlForPartialUpdate(data, <<>>)
      idVarIdx == "$" \o ToString(Len(c.values) + 1)
      querySql == JobUpdateHead \o c.setCols \o " WHERE id = " \o idVarIdx
                    \o JobUpdateTail
      stmt == Stmt(querySql, JArr(<<id>> \o c.values))
  IN  IF c.err # "" THEN { Outcome(Threw(c.err), <<>>, db) }
      ELSE { Outcome(IF r.err # "" THEN Threw(r.err)
                     ELSE IF Len(r.rows) = 0 THEN Threw("NotFoundError")
                     ELSE Returned(r.rows[1]),
                     <<stmt>>, r.db) : r \in DbQuery(stmt, db) }

\* Job.update(id, data)
Job_update(id, data, db) ==
  LET c == sqlForPartialUpdate(data, <<>>)
      idVarIdx == "$" \o ToString(Len(c.values) + 1)
      querySql == JobUpdateHead \o c.setCols \o " WHERE id = " \o idVarIdx
                    \o JobUpdateTail
      stmt == Stmt(querySql, JArr(c.values \o <<id>>))
  IN  IF c.err # "" THEN { Outcome(Threw(c.err), <<>>, db) }
      ELSE { Outcome(IF r.err # "" THEN Threw(r.err)
                     ELSE IF Len(r.rows) = 0 THEN Threw("NotFoundError")
                     ELSE Returned(r.rows[1]),
                     <<stmt>>, r.db) : r \in DbQuery(stmt, db) }

\* Company.create without the duplicate check.
Company_create_noCheck(data, db) ==
  LET insert == Stmt(CompanyInsertSql,
                     JArr(<<Get(data, "handle"), Get(data, "name"),
                            Get(data, "description"),
                            Get(data, "numEmployees"), Get(data, "logoUrl")>>))
  IN  { Outcome(IF r.err # "" THEN Threw(r.err) ELSE Returned(r.rows[1]),
                <<insert>>, r.db) : r \in DbQuery(insert, db) }

\* Company.create({ handle, name, description, numEmployees, logoUrl })
Company_create(data, db) ==
  LET check == Stmt(CompanyCheckSql, JArr(<<Get(data, "handle")>>))
      insert == Stmt(CompanyInsertSql,
                     JArr(<<Get(data, "handle"), Get(data, "name"),
                            Get(data, "description"),
                            Get(data, "numEmployees"), Get(data, "logoUrl")>>))
  IN  UNION {
        IF d.err # "" THEN { Outcome(Threw(d.err), <<check>>, d.db) }
        ELSE IF Len(d.rows) > 0
          THEN { Outcome(Threw("BadRequestError"), <<check>>, d.db) }
        ELSE { Outcome(IF r.err # "" THEN Threw(r.err)
                       ELSE Returned(r.rows[1]),
                       <<check, insert>>, r.db) : r \in DbQuery(insert, d.db) }
        : d \in DbQuery(check, db) }

\* x > y: two strings compare as text, anything else as numbers, and a
\* comparison with NaN is false.
JsGreater(x, y) ==
  IF x.t = "string" /\ y.t = "string" THEN TextLess(y.s, x.s)
  ELSE /\ ~ToNumber(x).nan
       /\ ~ToNumber(y).nan
       /\ ToNumber(x).n > ToNumber(y).n

\* Company.findAll without the test of minEmployees against maxEmployees.
Company_findAll_noRangeTest(filters, db) ==
  LET w == Company_formatWhereCmds(filters)
      querySql == CompanySelectHead
                    \o (IF Truthy(w.sqlCmd) THEN w.sqlCmd.s ELSE "")
                    \o CompanySelectTail
      stmt == Stmt(querySql, w.values)
  IN  { Outcome(IF r.err # "" THEN Threw(r.err) ELSE Returned(r.rows),
                <<stmt>>, r.db) : r \in DbQuery(stmt, db) }

\* Company.findAll(filters)
Company_findAll(filters, db) ==
  LET w == Company_formatWhereCmds(filters)
      querySql == CompanySelectHead
                    \o (IF Truthy(w.sqlCmd) THEN w.sqlCmd.s ELSE "")
                    \o CompanySelectTail
      stmt == Stmt(querySql, w.values)
  IN  IF JsGreater(Get(filters, "minEmployees"), Get(filters, "maxEmployees"))
        THEN { Outcome(Threw("BadRequestError"), <<>>, db) }
        ELSE { Outcome(IF r.err # "" THEN Threw(r.err) ELSE Returned(r.rows),
                       <<stmt>>, r.db) : r \in DbQuery(stmt, db) }

\* The translation map Company.update passes to sqlForPartialUpdate.
CompanyJsToSql ==
  << [k |-> "numEmployees", v |-> JStr("num_employees")],
     [k |-> "logoUrl", v |-> JStr("logo_url")] >>

\* Company.update numbering the handle's placeholder after the last value's.
Company_update_keyIdxShort(handle, data, db) ==
  LET c == sqlForPartialUpdate(data, CompanyJsToSql)
      handleVarIdx == "$" \o ToString(Len(c.values))
      querySql == CompanyUpdateHead \o c.setCols
                    \o " WHERE handle = " \o handleVarIdx \o CompanyUpdateTail
      stmt == Stmt(querySql, JArr(c.values \o <<handle>>))
  IN  IF c.err # "" THEN { Outcome(Threw(c.err), <<>>, db) }
      ELSE { Outcome(IF r.err # "" THEN Threw(r.err)
                     ELSE IF Len(r.rows) = 0 THEN Threw("NotFoundError")
                     ELSE Returned(r.rows[1]),
                     <<stmt>>, r.db) : r \in DbQuery(stmt, db) }

\* Company.update(handle, data)
Company_update(handle, data, db) ==
  LET c == sqlForPartialUpdate(data, CompanyJsToSql)
      handleVarIdx == "$" \o ToString(Len(c.values) + 1)
      querySql == CompanyUpdateHead \o c.setCols
                    \o " WHERE handle = " \o handleVarIdx \o CompanyUpdateTail
      stmt == Stmt(querySql, JArr(c.values \o <<handle>>))
  IN  IF c.err # "" THEN { Outcome(Threw(c.err), <<>>, db) }
      ELSE { Outcome(IF r.err # "" THEN Threw(r.err)
                     ELSE IF Len(r.rows) = 0 THEN Threw("NotFoundError")
                     ELSE Returned(r.rows[1]),
                     <<stmt>>, r.db) : r \in DbQuery(stmt, db) }

\* Job.get without the test of the row it read.
Job_get_noCheck(id, db) ==
  LET jobQ == Stmt(JobGetSql, JArr(<<id>>))
  IN  { Outcome(IF r.err # "" THEN Threw(r.err)
                ELSE Returned(IF Len(r.rows) = 0 THEN JUndefined
                              ELSE r.rows[1]),
                <<jobQ>>, r.db) : r \in DbQuery(jobQ, db) }

\* Job.get(id)
Job_get(id, db) ==
  LET jobQ == Stmt(JobGetSql, JArr(<<id>>))
  IN  UNION {
        IF r.err # "" THEN { Outcome(Threw(r.err), <<jobQ>>, r.db) }
        ELSE IF Len(r.rows) = 0
          THEN { Outcome(Threw("NotFoundError"), <<jobQ>>, r.db) }
        ELSE
          LET job == r.rows[1]
              companyQ == Stmt(JobCompanySql, JArr(<<job.companyHandle>>))
          IN  { Outcome(IF c.err # "" THEN Threw(c.err)
                        ELSE Returned(
                          [id |-> job.id, title |-> job.title,
                           salary |-> job.salary, equity |-> job.equity,
                           companyHandle |-> job.companyHandle,
                           company |-> IF Len(c.rows) = 0 THEN JUndefined
                                       ELSE c.rows[1]]),
                        <<jobQ, companyQ>>, c.db) :
                  c \in DbQuery(companyQ, r.db) }
        : r \in DbQuery(jobQ, db) }

\* Job.remove without the test of the row it deleted.
Job_remove_noCheck(id, db) ==
  LET stmt == Stmt(JobDeleteSql, JArr(<<id>>))
  IN  { Outcome(IF r.err # "" THEN Threw(r.err) ELSE Returned(JUndefined),
                <<stmt>>, r.db) : r \in DbQuery(stmt, db) }

\* Job.remove(id)
Job_remove(id, db) ==
  LET stmt == Stmt(JobDeleteSql, JArr(<<id>>))
  IN  { Outcome(IF r.err # "" THEN Threw(r.err)
                ELSE IF Len(r.rows) = 0 THEN Threw("NotFoundError")
                ELSE Returned(JUndefined),
                <<stmt>>, r.db) : r \in DbQuery(stmt, db) }

\* Company.get attaching no jobs.
Company_get_noJobs(handle, db) ==
  LET companyQ == Stmt(CompanyGetSql, JArr(<<handle>>))
  IN  { Outcome(IF r.err # "" THEN Threw(r.err)
                ELSE IF Len(r.rows) = 0 THEN Threw("NotFoundError")
                ELSE Returned(
                  [handle |-> r.rows[1].handle, name |-> r.rows[1].name,
                   description |-> r.rows[1].description,
                   numEmployees |-> r.rows[1].numEmployees,
                   logoUrl |-> r.rows[1].logoUrl, jobs |-> <<>>]),
                <<companyQ>>, r.db) : r \in DbQuery(companyQ, db) }

\* Company.get(handle)
Company_get(handle, db) ==
  LET companyQ == Stmt(CompanyGetSql, JArr(<<handle>>))
      jobQ == Stmt(CompanyJobsSql, JArr(<<handle>>))
  IN  UNION {
        IF r.err # "" THEN { Outcome(Threw(r.err), <<companyQ>>, r.db) }
        ELSE IF Len(r.rows) = 0
          THEN { Outcome(Threw("NotFoundError"), <<companyQ>>, r.db) }
        ELSE
          LET company == r.rows[1]
          IN  { Outcome(IF j.err # "" THEN Threw(j.err)
                        ELSE Returned(
                          [handle |-> company.handle, name |-> company.name,
                           description |-> company.description,
                           numEmployees |-> company.numEmployees,
                           logoUrl |-> company.logoUrl, jobs |-> j.rows]),
                        <<companyQ, jobQ>>, j.db) :
                  j \in DbQuery(jobQ, r.db) }
        : r \in DbQuery(companyQ, db) }

\* Company.remove reading the company before deleting it.
Company_remove_readFirst(handle, db) ==
  LET read == Stmt(CompanyGetSql, JArr(<<handle>>))
      stmt == Stmt(CompanyDeleteSql, JArr(<<handle>>))
  IN  { Outcome(IF r.err # "" THEN Threw(r.err)
                ELSE IF Len(r.rows) = 0 THEN Threw("NotFoundError")
                ELSE Returned(JUndefined),
                <<read, stmt>>, r.db) : r \in DbQuery(stmt, db) }

\* Company.remove(handle)
Company_remove(handle, db) ==
  LET stmt == Stmt(CompanyDeleteSql, JArr(<<handle>>))
  IN  { Outcome(IF r.err # "" THEN Threw(r.err)
                ELSE IF Len(r.rows) = 0 THEN Threw("NotFoundError")
                ELSE Returned(JUndefined),
                <<stmt>>, r.db) : r \in DbQuery(stmt, db) }

---------------------------------------------------------------------------
(* middleware/auth.js and routes/jobs.js                                   *)

\* What a middleware call came to: the error it threw ("" for none) and
\* how many times it called next.
Passed == [state |-> "returned", nextCalls |-> 1]

Refused(e) == [state |-> "threw", err |-> e, nextCalls |-> 0]

\* ensureCurrUserOrAdmin letting only the named user through.
ensureCurrUserOrAdmin_selfOnly(user, params) ==
  IF OptGet(user, "username") = OptGet(params, "username")
    THEN Passed
    ELSE Refused("UnauthorizedError")

\* ensureCurrUserOrAdmin(req, res, next), with user = res.locals.user and
\* params = req.params.
ensureCurrUserOrAdmin(user, params) ==
  IF \/ Truthy(OptGet(user, "isAdmin"))
     \/ OptGet(user, "username") = OptGet(params, "username")
    THEN Passed
    ELSE Refused("UnauthorizedError")

\* authHeader.replace(/^[Bb]earer /, "")
StripBearer(str) ==
  IF StartsWith(str, "Bearer ") \/ StartsWith(str, "bearer ")
    THEN Drop(str, 7)
    ELSE str

\* str.trim(), for text whose only white space is the blank
RECURSIVE Trim(_)
Trim(str) ==
  IF StartsWith(str, " ") THEN Trim(Drop(str, 1))
  ELSE IF EndsWith(str, " ") THEN Trim(SubSeq(str, 1, Len(str) - 1))
  ELSE str

\* A token signed with SECRET_KEY and one signed with another key.
testJwt == "t.ok"

badJwt == "t.bad"

\* jwt.verify(token, SECRET_KEY): the payload of a token signed with the
\* key; anything else makes it throw.
jwt_verify(token) ==
  IF token = testJwt
    THEN [threw |-> FALSE,
          payload |-> JObj(<< [k |-> "username", v |-> JStr("test")],
                              [k |-> "isAdmin", v |-> JBool(FALSE)],
                              [k |-> "iat", v |-> JNum(1)] >>)]
    ELSE [threw |-> TRUE, payload |-> JUndefined]

\* What authenticateJWT came to: next was called once with no argument,
\* and locals is res.locals afterwards.
Continued(locals) == [state |-> "returned", nextCalls |-> 1, locals |-> locals]

\* authenticateJWT without its catch clause.
authenticateJWT_noCatch(req, locals) ==
  LET headers == OptGet(req, "headers")
      authHeader == IF Truthy(headers) THEN OptGet(headers, "authorization")
                    ELSE headers
      verified == jwt_verify(Trim(StripBearer(authHeader.s)))
  IN  IF ~Truthy(authHeader) THEN Continued(locals)
      ELSE IF verified.threw THEN Refused("JsonWebTokenError")
      ELSE Continued(Put(locals, "user", verified.payload))

\* authenticateJWT(req, res, next), with locals = res.locals.
authenticateJWT(req, locals) ==
  LET headers == OptGet(req, "headers")
      authHeader == IF Truthy(headers) THEN OptGet(headers, "authorization")
                    ELSE headers
      verified == jwt_verify(Trim(StripBearer(authHeader.s)))
  IN  IF ~Truthy(authHeader) THEN Continued(locals)
      ELSE IF verified.threw THEN Continued(locals)
      ELSE Continued(Put(locals, "user", verified.payload))

\* ensureLoggedIn(req, res, next), with user = res.locals.user.
ensureLoggedIn(user) ==
  IF ~Truthy(user) THEN Refused("UnauthorizedError") ELSE Passed

\* ensureAdminLoggedIn letting every logged-in user through.
ensureAdminLoggedIn_anyUser(user) ==
  IF ~Truthy(user) THEN Refused("UnauthorizedError") ELSE Passed

\* ensureAdminLoggedIn(req, res, next), with user = res.locals.user.
ensureAdminLoggedIn(user) ==
  IF ~Truthy(user) \/ ~Truthy(OptGet(user, "isAdmin"))
    THEN Refused("UnauthorizedError")
    ELSE Passed

\* req.query as GET /jobs hands it to the validator and to Job.findAll.
LintedQuery(query) ==
  LET q1 == IF Truthy(Get(query, "minSalary"))
              THEN Put(query, "minSalary", Number(Get(query, "minSalary")))
              ELSE query
      q2 == Put(q1, "hasEquity",
                JBool(Get(q1, "hasEquity") = JStr("true")))
  IN  IF Get(q2, "hasEquity") = JBool(FALSE)
        THEN Delete(q2, "hasEquity")
        ELSE q2

\* jsonschema.validate(lintedQuery, jobFilterSchema).valid
JobFilterValid(q) ==
  LET m == Get(q, "minSalary")
  IN  HasKey(q, "minSalary") => (m.t = "number" /\ m # JNaN)

\* The handler of GET /jobs: the response, with the filters handed to
\* Job.findAll (null when it is not called), and the effect on the store.
Route_GET_jobs(query, db) ==
  LET linted == LintedQuery(query)
  IN  IF ~JobFilterValid(linted)
        THEN { Outcome([state |-> "threw", err |-> "BadRequestError",
                        passed |-> JNull], <<>>, db) }
        ELSE { Outcome(IF o.ret.state = "threw"
                         THEN [state |-> "threw", err |-> o.ret.err,
                               passed |-> JObj(linted)]
                         ELSE [state |-> "returned", status |-> 200,
                               jobs |-> o.ret.value, passed |-> JObj(linted)],
                       o.sent, o.db) : o \in Job_findAll(linted, db) }

\* ensureAdmin, the gate routes/jobs.js takes from middleware/auth: it lets
\* a privileged caller through and refuses every other one.
ensureAdmin(user) ==
  IF Truthy(OptGet(user, "isAdmin")) THEN Passed
  ELSE Refused("UnauthorizedError")

\* jsonschema.validate(req.body, jobNewSchema).valid
JobNewValid(body) ==
  /\ \A i \in 1..Len(body) :
        body[i].k \in {"title", "salary", "equity", "companyHandle"}
  /\ Get(body, "title").t = "string" /\ Get(body, "title").s # ""
  /\ Get(body, "companyHandle").t = "string"
  /\ Get(body, "salary").t \in {"undefined", "null", "number"}
  /\ Get(body, "salary") # JNaN
  /\ Get(body, "equity").t \in {"undefined", "null", "string"}

\* jsonschema.validate(req.body, jobUpdateSchema).valid
JobUpdateValid(body) ==
  /\ \A i \in 1..Len(body) : body[i].k \in {"title", "salary", "equity"}
  /\ Get(body, "title").t \in {"undefined", "string"}
  /\ Get(body, "salary").t \in {"undefined", "null", "number"}
  /\ Get(body, "salary") # JNaN
  /\ Get(body, "equity").t \in {"undefined", "null", "string"}

\* The status the application's error handler answers an error with.
StatusOf(err) ==
  CASE err = "UnauthorizedError" -> 401
    [] err = "BadRequestError" -> 400
    [] err = "NotFoundError" -> 404
    [] OTHER -> 500

\* What a request came to: the status of the response, its body, and the
\* repository methods the handler invoked.
Responded(status, body, repo) ==
  [state |-> "responded", status |-> status, body |-> body, repo |-> repo]

\* A gated handler that does not validate the body.
Handled_unvalidated(gate, valid, repo, outs, ok, id, db) ==
  IF gate.state = "threw"
    THEN { Outcome(Responded(StatusOf(gate.err), JUndefined, <<>>), <<>>, db) }
  ELSE { Outcome(IF o.ret.state = "threw"
                   THEN Responded(StatusOf(o.ret.err), JUndefined, <<repo>>)
                 ELSE IF repo = "Job.remove"
                   THEN Responded(ok, [deleted |-> Number(id)], <<repo>>)
                 ELSE Responded(ok, [job |-> o.ret.value], <<repo>>),
                 o.sent, o.db) : o \in outs }

\* A gated handler: the gate, then validation, then the repository call
\* named repo with outcomes outs, answered with status ok and the body
\* made of what the call returned.
Handled(gate, valid, repo, outs, ok, id, db) ==
  IF gate.state = "threw"
    THEN { Outcome(Responded(StatusOf(gate.err), JUndefined, <<>>), <<>>, db) }
  ELSE IF ~valid
    THEN { Outcome(Responded(400, JUndefined, <<>>), <<>>, db) }
  ELSE { Outcome(IF o.ret.state = "threw"
                   THEN Responded(StatusOf(o.ret.err), JUndefined, <<repo>>)
                 ELSE IF repo = "Job.remove"
                   THEN Responded(ok, [deleted |-> Number(id)], <<repo>>)
                 ELSE Responded(ok, [job |-> o.ret.value], <<repo>>),
                 o.sent, o.db) : o \in outs }

\* POST /jobs
Route_POST_jobs(user, body, db) ==
  Handled(ensureAdmin(user), JobNewValid(body), "Job.create",
          Job_create(body, db), 201, JUndefined, db)

\* PATCH /jobs/:id without its gate.
Route_PATCH_jobs_noGate(user, id, body, db) ==
  Handled(Passed, JobUpdateValid(body), "Job.update",
          Job_update(id, body, db), 200, id, db)

\* PATCH /jobs/:id
Route_PATCH_jobs(user, id, body, db) ==
  Handled(ensureAdmin(user), JobUpdateValid(body), "Job.update",
          Job_update(id, body, db), 200, id, db)

\* DELETE /jobs/:id
Route_DELETE_jobs(user, id, db) ==
  Handled(ensureAdmin(user), TRUE, "Job.remove",
          Job_remove(id, db), 200, id, db)

---------------------------------------------------------------------------
(* Inputs                                                                  *)

\* The objects with at most maxLen entries drawn from entries, no key twice.
ObjectsOver(entries, maxLen) ==
  UNION { { o \in [1..n -> entries] :
              \A i, j \in 1..n : i # j => o[i].k # o[j].k } : n \in 0..maxLen }

Entries(key, vals) == { [k |-> key, v |-> x] : x \in vals }

\* Update payloads and translation maps handed to sqlForPartialUpdate.
UpdateEntries ==
  Entries("name", {JStr("n1"), JNull})
    \cup Entries("numEmployees", {JNum(5), JNull})
    \cup Entries("logoUrl", {JStr("u1")})
    \cup Entries("description", {JStr("d1")})

UpdateMaps == ObjectsOver(UpdateEntries, MaxKeys)

TranslationEntries ==
  Entries("numEmployees", {JStr("num_employees"), JStr("")})
    \cup Entries("logoUrl", {JStr("logo_url")})

TranslationMaps == ObjectsOver(TranslationEntries, 2)

\* Filter maps handed to Job.formatWhereCmds.
JobFilterEntries ==
  Entries("title", {JStr(""), JStr("a")})
    \cup Entries("minSalary", {JNum(0), JNum(1), JNull})
    \cup Entries("hasEquity",
                 {JBool(TRUE), JBool(FALSE), JNull, JStr("yes"), JNum(1)})
    \cup Entries("sort", {JStr("x")})

JobFilters == ObjectsOver(JobFilterEntries, MaxKeys)

\* Filter maps handed to Company.formatWhereCmds.
CompanyFilterEntries ==
  Entries("nameLike", {JStr(""), JStr("c")})
    \cup Entries("minEmployees", {JNum(0), JNum(1), JNum(2), JNull})
    \cup Entries("maxEmployees", {JNum(0), JNum(1), JNull})
    \cup Entries("sort", {JStr("x")})

CompanyFilters == ObjectsOver(CompanyFilterEntries, MaxKeys)

\* Arguments of the repository calls.
Handles == {"c1", "c2"}

JobIds == { JNum(i) : i \in 1..MaxJobs }

Obj1(k1, v1) == << [k |-> k1, v |-> v1] >>

Obj2(k1, v1, k2, v2) == << [k |-> k1, v |-> v1], [k |-> k2, v |-> v2] >>

NewJob(title, salary, equity, companyHandle) ==
  << [k |-> "title", v |-> JStr(title)], [k |-> "salary", v |-> salary],
     [k |-> "equity", v |-> equity],
     [k |-> "companyHandle", v |-> JStr(companyHandle)] >>

NewJobs ==
  { NewJob("ab", JNum(1), JStr("0.5"), "c1"),
    NewJob("b", JNull, JStr("0"), "c2") }

JobUpdates == { <<>>, Obj2("title", JStr("a"), "salary", JNum(2)) }

NewCompany(handle, name, numEmployees) ==
  << [k |-> "handle", v |-> JStr(handle)], [k |-> "name", v |-> JStr(name)],
     [k |-> "description", v |-> JStr("d")],
     [k |-> "numEmployees", v |-> numEmployees],
     [k |-> "logoUrl", v |-> JNull] >>

NewCompanies == { NewCompany("c1", "c", JNum(1)), NewCompany("c2", "ac", JNull) }

CompanyUpdates ==
  { <<>>, Obj1("logoUrl", JNull),
    Obj2("name", JStr("bc"), "numEmployees", JNum(2)) \o Obj1("logoUrl", JNull) }

\* Filters of the findAll calls.
FindJobFilters ==
  { <<>>, Obj1("title", JStr("A")),
    Obj1("minSalary", JNum(1)),
    Obj1("hasEquity", JBool(TRUE)), Obj1("hasEquity", JBool(FALSE)),
    Obj2("hasEquity", JBool(TRUE), "minSalary", JNum(1)) }

FindCompanyFilters ==
  { <<>>, Obj1("nameLike", JStr("C")), Obj1("minEmployees", JNum(1)),
    Obj2("nameLike", JStr("a"), "maxEmployees", JNum(2)),
    Obj2("minEmployees", JNum(1), "maxEmployees", JNum(2)),
    Obj2("minEmployees", JNum(2), "maxEmployees", JNum(1)),
    Obj2("maxEmployees", JNum(1), "minEmployees", JNum(2)) }

\* Query strings of GET /jobs, as req.query holds them.
JobQueries ==
  { <<>>, Obj1("hasEquity", JStr("true")), Obj1("hasEquity", JStr("false")),
    Obj1("minSalary", JStr("0")), Obj1("minSalary", JStr("x")),
    Obj2("title", JStr("A"), "hasEquity", JStr("true")) }

\* Requests as authenticateJWT sees them, each with the token it carries
\* ("" for none), and res.locals before the call.
TokenRequests ==
  { [req |-> JObj(<<>>), token |-> ""],
    [req |-> JObj(Obj1("headers", JObj(<<>>))), token |-> ""],
    [req |-> JObj(Obj1("headers", JObj(Obj1("authorization", JStr(""))))),
     token |-> ""] }
    \cup { [req |-> JObj(Obj1("headers",
                     JObj(Obj1("authorization", JStr(scheme \o t \o pad))))),
            token |-> t] :
              scheme \in {"Bearer ", "bearer ", ""}, t \in {testJwt, badJwt},
              pad \in {"", " "} }

LocalsBefore == { <<>>, Obj1("requestId", JNum(1)) }

\* Requests to the gated job routes: the caller, the id in the path (the
\* first id, the last one, and text that is no number) and the body.
RouteUsers ==
  { JUndefined,
    JObj(Obj2("username", JStr("u1"), "isAdmin", JBool(FALSE))),
    JObj(Obj2("username", JStr("u2"), "isAdmin", JBool(TRUE))) }

PathIds == { JStr("1"), JStr(ToString(MaxJobs)), JStr("x") }

PostBodies == NewJobs \cup { Obj1("title", JStr("b")) }

PatchBodies ==
  { <<>>, Obj2("title", JStr("a"), "salary", JNum(2)), Obj1("id", JNum(5)) }

\* What authenticateJWT may have left in res.locals.user, and req.params.
Usernames == {"u1", "u2"}

LocalsUsers ==
  {JUndefined}
    \cup { JObj(Obj1("username", JStr(u))) : u \in Usernames }
    \cup { JObj(Obj2("username", JStr(u), "isAdmin", JBool(b))) :
             u \in Usernames, b \in BOOLEAN }

RouteParams ==
  {JUndefined, JObj(<<>>)} \cup { JObj(Obj1("username", JStr(u))) : u \in Usernames }

---------------------------------------------------------------------------
(* The state machine.  call is the operation last invoked with its         *)
(* arguments, ret what it returned or threw, sent the statements it sent   *)
(* to the store; jobs, companies and nextId are the store.  inflight holds, *)
(* for each of two concurrent callers, the call that is waiting between    *)
(* two of its statements: where it waits (pc), its argument and the row    *)
(* its first statement read.                                               *)

Db == [jobs |-> jobs, companies |-> companies, nextId |-> nextId]

StoreEmpty ==
  /\ jobs = {}
  /\ companies = {}
  /\ nextId = 1
  /\ sent = <<>>
  /\ inflight = [t \in {"a", "b"} |->
                   [pc |-> "idle", arg |-> JUndefined, row |-> JUndefined]]

\* A compiler called on its own starts with its input drawn; otherwise
\* nothing has been called yet.
Init ==
  /\ StoreEmpty
  /\ \/ /\ ret = Pending
        /\ \/ \E d \in UpdateMaps, t \in TranslationMaps :
                call = [op |-> "sqlForPartialUpdate", dataToUpdate |-> d,
                        jsToSql |-> t]
           \/ \E f \in JobFilters :
                call = [op |-> "Job.formatWhereCmds", filters |-> f]
           \/ \E f \in CompanyFilters :
                call = [op |-> "Company.formatWhereCmds", filters |-> f]
           \/ \E u \in LocalsUsers, ps \in RouteParams :
                call = [op |-> "ensureCurrUserOrAdmin", user |-> u,
                        params |-> ps]
           \/ \E f \in CompanyFilters :
                call = [op |-> "formatWhereCmds", filters |-> f]
           \/ \E q \in TokenRequests, l \in LocalsBefore :
                call = [op |-> "authenticateJWT", req |-> q.req,
                        token |-> q.token, locals |-> l]
           \/ \E u \in LocalsUsers :
                call = [op |-> "ensureLoggedIn", user |-> u]
           \/ \E u \in LocalsUsers :
                call = [op |-> "ensureAdminLoggedIn", user |-> u]
     \/ /\ ret = Returned(JUndefined)
        /\ call = [op |-> "none"]

Call_sqlForPartialUpdate ==
  /\ ret = Pending
  /\ call.op = "sqlForPartialUpdate"
  /\ LET r == sqlForPartialUpdate(call.dataToUpdate, call.jsToSql)
     IN  ret' = IF r.err # ""
                  THEN Threw(r.err)
                  ELSE Returned([setCols |-> r.setCols, values |-> r.values])
  /\ UNCHANGED <<jobs, companies, nextId, call, sent, inflight>>

Call_Job_formatWhereCmds ==
  /\ ret = Pending
  /\ call.op = "Job.formatWhereCmds"
  /\ ret' = Returned(Job_formatWhereCmds(call.filters))
  /\ UNCHANGED <<jobs, companies, nextId, call, sent, inflight>>

Call_Company_formatWhereCmds ==
  /\ ret = Pending
  /\ call.op = "Company.formatWhereCmds"
  /\ ret' = Returned(Company_formatWhereCmds(call.filters))
  /\ UNCHANGED <<jobs, companies, nextId, call, sent, inflight>>

Call_ensureCurrUserOrAdmin ==
  /\ ret = Pending
  /\ call.op = "ensureCurrUserOrAdmin"
  /\ ret' = ensureCurrUserOrAdmin(call.user, call.params)
  /\ UNCHANGED <<jobs, companies, nextId, call, sent, inflight>>

Call_formatWhereCmds ==
  /\ ret = Pending
  /\ call.op = "formatWhereCmds"
  /\ ret' = Returned(formatWhereCmds(call.filters))
  /\ UNCHANGED <<jobs, companies, nextId, call, sent, inflight>>

Call_authenticateJWT ==
  /\ ret = Pending
  /\ call.op = "authenticateJWT"
  /\ ret' = authenticateJWT(call.req, call.locals)
  /\ UNCHANGED <<jobs, companies, nextId, call, sent, inflight>>

Call_ensureLoggedIn ==
  /\ ret = Pending
  /\ call.op = "ensureLoggedIn"
  /\ ret' = ensureLoggedIn(call.user)
  /\ UNCHANGED <<jobs, companies, nextId, call, sent, inflight>>

Call_ensureAdminLoggedIn ==
  /\ ret = Pending
  /\ call.op = "ensureAdminLoggedIn"
  /\ ret' = ensureAdminLoggedIn(call.user)
  /\ UNCHANGED <<jobs, companies, nextId, call, sent, inflight>>

\* A repository call runs to completion: o is one of its outcomes.
Complete(c, o) ==
  /\ call' = c
  /\ ret' = o.ret
  /\ sent' = o.sent
  /\ jobs' = o.db.jobs
  /\ companies' = o.db.companies
  /\ nextId' = o.db.nextId

Call_Job_create ==
  /\ ret # Pending
  /\ nextId <= MaxJobs
  /\ \E data \in NewJobs : \E o \in Job_create(data, Db) :
       Complete([op |-> "Job.create", data |-> data], o)
  /\ UNCHANGED inflight

Call_Job_findAll ==
  /\ ret # Pending
  /\ \E filters \in FindJobFilters : \E o \in Job_findAll(filters, Db) :
       Complete([op |-> "Job.findAll", filters |-> filters], o)
  /\ UNCHANGED inflight

Call_Job_update ==
  /\ ret # Pending
  /\ \E id \in JobIds, data \in JobUpdates : \E o \in Job_update(id, data, Db) :
       Complete([op |-> "Job.update", id |-> id, data |-> data], o)
  /\ UNCHANGED inflight

Call_Company_create ==
  /\ ret # Pending
  /\ \E data \in NewCompanies : \E o \in Company_create(data, Db) :
       Complete([op |-> "Company.create", data |-> data], o)
  /\ UNCHANGED inflight

Call_Company_findAll ==
  /\ ret # Pending
  /\ \E filters \in FindCompanyFilters : \E o \in Company_findAll(filters, Db) :
       Complete([op |-> "Company.findAll", filters |-> filters], o)
  /\ UNCHANGED inflight

Call_Company_update ==
  /\ ret # Pending
  /\ \E handle \in Handles, data \in CompanyUpdates :
       \E o \in Company_update(JStr(handle), data, Db) :
         Complete([op |-> "Company.update", handle |-> JStr(handle),
                   data |-> data], o)
  /\ UNCHANGED inflight

Call_GET_jobs ==
  /\ ret # Pending
  /\ \E query \in JobQueries : \E o \in Route_GET_jobs(query, Db) :
       Complete([op |-> "GET /jobs", query |-> query], o)
  /\ UNCHANGED inflight

Call_Job_get ==
  /\ ret # Pending
  /\ \E id \in JobIds : \E o \in Job_get(id, Db) :
       Complete([op |-> "Job.get", id |-> id], o)
  /\ UNCHANGED inflight

Call_Job_remove ==
  /\ ret # Pending
  /\ \E id \in JobIds : \E o \in Job_remove(id, Db) :
       Complete([op |-> "Job.remove", id |-> id], o)
  /\ UNCHANGED inflight

Call_Company_get ==
  /\ ret # Pending
  /\ \E handle \in Handles : \E o \in Company_get(JStr(handle), Db) :
       Complete([op |-> "Company.get", handle |-> JStr(handle)], o)
  /\ UNCHANGED inflight

Call_Company_remove ==
  /\ ret # Pending
  /\ \E handle \in Handles : \E o \in Company_remove(JStr(handle), Db) :
       Complete([op |-> "Company.remove", handle |-> JStr(handle)], o)
  /\ UNCHANGED inflight

Call_POST_jobs ==
  /\ ret # Pending
  /\ nextId <= MaxJobs
  /\ \E user \in RouteUsers, body \in PostBodies :
       \E o \in Route_POST_jobs(user, body, Db) :
         Complete([op |-> "POST /jobs", user |-> user, body |-> body], o)
  /\ UNCHANGED inflight

Call_PATCH_jobs ==
  /\ ret # Pending
  /\ \E user \in RouteUsers, id \in PathIds, body \in PatchBodies :
       \E o \in Route_PATCH_jobs(user, id, body, Db) :
         Complete([op |-> "PATCH /jobs/:id", user |-> user, id |-> id,
                   body |-> body], o)
  /\ UNCHANGED inflight

Call_DELETE_jobs ==
  /\ ret # Pending
  /\ \E user \in RouteUsers, id \in PathIds :
       \E o \in Route_DELETE_jobs(user, id, Db) :
         Complete([op |-> "DELETE /jobs/:id", user |-> user, id |-> id], o)
  /\ UNCHANGED inflight

Next ==
  \/ Call_sqlForPartialUpdate
  \/ Call_Job_formatWhereCmds
  \/ Call_Company_formatWhereCmds
  \/ Call_Job_create
  \/ Call_Job_findAll
  \/ Call_Job_update
  \/ Call_Company_create
  \/ Call_Company_findAll
  \/ Call_Company_update
  \/ Call_ensureCurrUserOrAdmin
  \/ Call_formatWhereCmds
  \/ Call_authenticateJWT
  \/ Call_ensureLoggedIn
  \/ Call_ensureAdminLoggedIn
  \/ Call_GET_jobs

Spec == Init /\ [][Next]_vars

\* The gated job routes on their own, over a store that holds companies.
Idle ==
  /\ StoreEmpty
  /\ ret = Returned(JUndefined)
  /\ call = [op |-> "none"]

NextRoutes ==
  \/ Call_Company_create
  \/ Call_POST_jobs
  \/ Call_PATCH_jobs
  \/ Call_DELETE_jobs

SpecRoutes == Idle /\ [][NextRoutes]_vars

\* The operations of the two repositories.
NextKeyed ==
  \/ Call_Job_create
  \/ Call_Job_findAll
  \/ Call_Company_findAll
  \/ Call_Job_get
  \/ Call_Job_update
  \/ Call_Job_remove
  \/ Call_Company_create
  \/ Call_Company_get
  \/ Call_Company_update
  \/ Call_Company_remove

SpecKeyed == Idle /\ [][NextKeyed]_vars

\* The calls that write to a stored row: the updates of the two
\* repositories and PATCH /jobs/:id, over a store the creates fill.
NextUpdates ==
  \/ Call_Company_create
  \/ Call_Job_create
  \/ Call_Job_update
  \/ Call_Company_update
  \/ Call_PATCH_jobs

SpecUpdates == Idle /\ [][NextUpdates]_vars

---------------------------------------------------------------------------
(* The calls that send two statements, one statement at a time, so that    *)
(* the statements of other calls can run in between.  A call that is over  *)
(* leaves its result in call, ret and sent.                                *)

\* Company.create up to its insert: the duplicate check.
Company_create_check ==
  \E t \in DOMAIN inflight, data \in NewCompanies :
    LET check == Stmt(CompanyCheckSql, JArr(<<Get(data, "handle")>>))
        c == [op |-> "Company.create", data |-> data]
    IN  /\ inflight[t].pc = "idle"
        /\ \E d \in DbQuery(check, Db) :
             IF d.err # "" THEN
               /\ Complete(c, Outcome(Threw(d.err), <<check>>, d.db))
               /\ UNCHANGED inflight
             ELSE IF Len(d.rows) > 0 THEN
               /\ Complete(c, Outcome(Threw("BadRequestError"), <<check>>,
                                      d.db))
               /\ UNCHANGED inflight
             ELSE
               /\ inflight' = [inflight EXCEPT ![t] =
                                 [pc |-> "Company.create: insert",
                                  arg |-> JObj(data), row |-> JUndefined]]
               /\ UNCHANGED <<jobs, companies, nextId, call, ret, sent>>

\* Company.create from its insert on.
Company_create_insert ==
  \E t \in DOMAIN inflight :
    LET data == inflight[t].arg.a
        check == Stmt(CompanyCheckSql, JArr(<<Get(data, "handle")>>))
        insert == Stmt(CompanyInsertSql,
                       JArr(<<Get(data, "handle"), Get(data, "name"),
                              Get(data, "description"),
                              Get(data, "numEmployees"),
                              Get(data, "logoUrl")>>))
    IN  /\ inflight[t].pc = "Company.create: insert"
        /\ \E r \in DbQuery(insert, Db) :
             Complete([op |-> "Company.create", data |-> data],
                      Outcome(IF r.err # "" THEN Threw(r.err)
                              ELSE Returned(r.rows[1]),
                              <<check, insert>>, r.db))
        /\ inflight' = [inflight EXCEPT ![t] =
                          [pc |-> "idle", arg |-> JUndefined,
                           row |-> JUndefined]]

\* Job.get up to its second statement: the read of the job.
Job_get_primary ==
  \E t \in DOMAIN inflight, id \in JobIds :
    LET jobQ == Stmt(JobGetSql, JArr(<<id>>))
        c == [op |-> "Job.get", id |-> id]
    IN  /\ inflight[t].pc = "idle"
        /\ \E r \in DbQuery(jobQ, Db) :
             IF r.err # "" THEN
               /\ Complete(c, Outcome(Threw(r.err), <<jobQ>>, r.db))
               /\ UNCHANGED inflight
             ELSE IF Len(r.rows) = 0 THEN
               /\ Complete(c, Outcome(Threw("NotFoundError"), <<jobQ>>, r.db))
               /\ UNCHANGED inflight
             ELSE
               /\ inflight' = [inflight EXCEPT ![t] =
                                 [pc |-> "Job.get: company", arg |-> id,
                                  row |-> r.rows[1]]]
               /\ UNCHANGED <<jobs, companies, nextId, call, ret, sent>>

\* Job.get throwing NotFoundError when the company's row is gone.
Job_get_dependent_required ==
  \E t \in DOMAIN inflight :
    LET job == inflight[t].row
        jobQ == Stmt(JobGetSql, JArr(<<inflight[t].arg>>))
        companyQ == Stmt(JobCompanySql, JArr(<<job.companyHandle>>))
    IN  /\ inflight[t].pc = "Job.get: company"
        /\ \E c \in DbQuery(companyQ, Db) :
             Complete([op |-> "Job.get", id |-> inflight[t].arg],
                      Outcome(IF c.err # "" THEN Threw(c.err)
                              ELSE IF Len(c.rows) = 0
                                THEN Threw("NotFoundError")
                              ELSE Returned(
                                [id |-> job.id, title |-> job.title,
                                 salary |-> job.salary, equity |-> job.equity,
                                 companyHandle |-> job.companyHandle,
                                 company |-> c.rows[1]]),
                              <<jobQ, companyQ>>, c.db))
        /\ inflight' = [inflight EXCEPT ![t] =
                          [pc |-> "idle", arg |-> JUndefined,
                           row |-> JUndefined]]

\* Job.get from its second statement on: the read of the company.
Job_get_dependent ==
  \E t \in DOMAIN inflight :
    LET job == inflight[t].row
        jobQ == Stmt(JobGetSql, JArr(<<inflight[t].arg>>))
        companyQ == Stmt(JobCompanySql, JArr(<<job.companyHandle>>))
    IN  /\ inflight[t].pc = "Job.get: company"
        /\ \E c \in DbQuery(companyQ, Db) :
             Complete([op |-> "Job.get", id |-> inflight[t].arg],
                      Outcome(IF c.err # "" THEN Threw(c.err)
                              ELSE Returned(
                                [id |-> job.id, title |-> job.title,
                                 salary |-> job.salary, equity |-> job.equity,
                                 companyHandle |-> job.companyHandle,
                                 company |-> IF Len(c.rows) = 0 THEN JUndefined
                                             ELSE c.rows[1]]),
                              <<jobQ, companyQ>>, c.db))
        /\ inflight' = [inflight EXCEPT ![t] =
                          [pc |-> "idle", arg |-> JUndefined,
                           row |-> JUndefined]]

\* Company.get up to its second statement: the read of the company.
Company_get_primary ==
  \E t \in DOMAIN inflight, handle \in Handles :
    LET companyQ == Stmt(CompanyGetSql, JArr(<<JStr(handle)>>))
        c == [op |-> "Company.get", handle |-> JStr(handle)]
    IN  /\ inflight[t].pc = "idle"
        /\ \E r \in DbQuery(companyQ, Db) :
             IF r.err # "" THEN
               /\ Complete(c, Outcome(Threw(r.err), <<companyQ>>, r.db))
               /\ UNCHANGED inflight
             ELSE IF Len(r.rows) = 0 THEN
               /\ Complete(c, Outcome(Threw("NotFoundError"), <<companyQ>>,
                                      r.db))
               /\ UNCHANGED inflight
             ELSE
               /\ inflight' = [inflight EXCEPT ![t] =
                                 [pc |-> "Company.get: jobs",
                                  arg |-> JStr(handle), row |-> r.rows[1]]]
               /\ UNCHANGED <<jobs, companies, nextId, call, ret, sent>>

\* Company.get from its second statement on: the read of the jobs.
Company_get_dependent ==
  \E t \in DOMAIN inflight :
    LET company == inflight[t].row
        handle == inflight[t].arg
        companyQ == Stmt(CompanyGetSql, JArr(<<handle>>))
        jobQ == Stmt(CompanyJobsSql, JArr(<<handle>>))
    IN  /\ inflight[t].pc = "Company.get: jobs"
        /\ \E j \in DbQuery(jobQ, Db) :
             Complete([op |-> "Company.get", handle |-> handle],
                      Outcome(IF j.err # "" THEN Threw(j.err)
                              ELSE Returned(
                                [handle |-> company.handle,
                                 name |-> company.name,
                                 description |-> company.description,
                                 numEmployees |-> company.numEmployees,
                                 logoUrl |-> company.logoUrl,
                                 jobs |-> j.rows]),
                              <<companyQ, jobQ>>, j.db))
        /\ inflight' = [inflight EXCEPT ![t] =
                          [pc |-> "idle", arg |-> JUndefined,
                           row |-> JUndefined]]

\* Two callers at once: each statement of a two-statement call is a step,
\* and Job.create and Company.remove, one statement each, run in between.
NextInterleaved ==
  \/ Company_create_check
  \/ Company_create_insert
  \/ Job_get_primary
  \/ Job_get_dependent
  \/ Company_get_primary
  \/ Company_get_dependent
  \/ Call_Job_create
  \/ Call_Company_remove

SpecInterleaved == Idle /\ [][NextInterleaved]_vars

---------------------------------------------------------------------------
(* Properties                                                              *)

\* The fragments f[1..n] written left to right with sep between them.
RECURSIVE JoinedUpTo(_, _, _)
JoinedUpTo(f, sep, n) ==
  IF n = 0 THEN ""
  ELSE IF n = 1 THEN f[1]
  ELSE JoinedUpTo(f, sep, n - 1) \o sep \o f[n]

Called(op) == call.op = op /\ ret # Pending

\* The result of sqlForPartialUpdate has one fragment "<name>"=$i per key
\* of the payload, in key order, and the values in the same order; the
\* name is the translation map's entry when the key has one (one that is
\* not the empty string, if emptyIsNone), the key otherwise.
SetColsAsClaimed(emptyIsNone) ==
  LET d == call.dataToUpdate
      t == call.jsToSql
      n == Len(d)
      name(i) == IF HasKey(t, d[i].k) /\ ~(emptyIsNone /\ Get(t, d[i].k).s = "")
                   THEN Get(t, d[i].k).s
                   ELSE d[i].k
      frag == [i \in 1..n |-> "\"" \o name(i) \o "\"=$" \o ToString(i)]
  IN  /\ ret.state = "returned"
      /\ ret.value.setCols = JoinedUpTo(frag, ", ", n)
      /\ Len(ret.value.values) = n
      /\ \A i \in 1..n : ret.value.values[i] = d[i].v

FilterCompilers == {"Job.formatWhereCmds", "Company.formatWhereCmds"}

FilterCompiled == call.op \in FilterCompilers /\ ret.state = "returned"

\* The comparison a filter key stands for and the parameter it binds.
PredText(key) ==
  CASE key = "title" -> "title ILIKE "
    [] key = "minSalary" -> "salary >= "
    [] key = "hasEquity" -> "equity > "
    [] key = "nameLike" -> "name ILIKE "
    [] key = "minEmployees" -> "num_employees >= "
    [] OTHER -> "num_employees <= "

Param(key, v) ==
  IF key \in {"title", "nameLike"} THEN JStr("%" \o TemplateStr(v) \o "%")
  ELSE IF key = "hasEquity" THEN JNum(0)
  ELSE v

\* The ways of picking different keys of a filter map, one after another.
KeySeqs(f) ==
  UNION { { p \in [1..n -> { f[i].k : i \in 1..Len(f) }] :
              \A i, j \in 1..n : i # j => p[i] # p[j] } : n \in 1..Len(f) }

SomePredicateApplied ==
  \/ ret.value.sqlCmd.t = "string" /\ ret.value.sqlCmd.s # "WHERE "
  \/ ret.value.values.t = "array" /\ Len(ret.value.values.a) > 0

UpdateOfNothing ==
  /\ call'.op \in {"Job.update", "Company.update"}
  /\ call'.data = <<>>

\* C3: an update with an empty payload is always rejected:
\* sqlForPartialUpdate({}, t) throws BadRequestError whatever t is, and
\* Job.update / Company.update with {} throw it before any statement is
\* sent, leaving the store as it was.
C3_EmptyUpdateRejected ==
  [][ /\ (call'.op = "sqlForPartialUpdate" /\ call'.dataToUpdate = <<>>
            /\ ret' # Pending)
        => ret' = Threw("BadRequestError")
      /\ UpdateOfNothing
        => /\ ret' = Threw("BadRequestError")
           /\ sent' = <<>>
           /\ <<jobs, companies, nextId>>' = <<jobs, companies, nextId>>
    ]_vars

C3_Witness ==
  /\ call.op = "Job.update"
  /\ call.data = <<>>
  /\ ret = Threw("BadRequestError")
  /\ \E j \in jobs : j.id = call.id

TitlePasses(f) == Get(f, "title").t = "string" /\ Get(f, "title").s # ""

MinSalaryPasses(f) ==
  /\ HasKey(f, "minSalary")
  /\ Get(f, "minSalary") \notin {JNull, JUndefined, JNum(0), JNaN}

HasEquityPasses(f) == Get(f, "hasEquity") = JBool(TRUE)

NoFieldPasses(f) == ~TitlePasses(f) /\ ~MinSalaryPasses(f) /\ ~HasEquityPasses(f)

\* C5: when no field of the filter map passes its inclusion rule, Job.findAll
\* executes a statement without any WHERE clause and returns every row.
C5_Stated ==
  (call.op = "Job.findAll" /\ NoFieldPasses(call.filters)) =>
    /\ Len(sent) = 1
    /\ ~Contains(sent[1].text, "WHERE")
    /\ ret.state = "returned"
    /\ Len(ret.value) = Cardinality(JoinedJobs(Db))
    /\ { ret.value[i] : i \in 1..Len(ret.value) } = JoinedJobs(Db)

\* C6: for the job filter compiler, {hasEquity: false} on its own compiles
\* to the same result as {}.
C6_Stated ==
  (FilterCompiled /\ call.op = "Job.formatWhereCmds"
     /\ call.filters = Obj1("hasEquity", JBool(FALSE)))
    => ret.value = Job_formatWhereCmds(<<>>)

\* C7: the predicate equity > 0 is applied if and only if hasEquity is
\* exactly true; with any other value the result is that of the same map
\* without hasEquity; and GET /jobs hands hasEquity to Job.findAll only
\* when the query string holds "true".
C7_Stated ==
  /\ (FilterCompiled /\ call.op = "Job.formatWhereCmds") =>
       IF HasEquityPasses(call.filters)
         THEN Contains(ret.value.sqlCmd.s, "equity > $")
         ELSE ret.value = Job_formatWhereCmds(Delete(call.filters, "hasEquity"))
  /\ (call.op = "GET /jobs" /\ ret.passed # JNull) =>
       (HasKey(ret.passed.a, "hasEquity")
          <=> Get(call.query, "hasEquity") = JStr("true"))

\* The bound fields of each model's filter.
BoundFields(op) ==
  IF op = "Job.formatWhereCmds" THEN {"minSalary"}
  ELSE {"minEmployees", "maxEmployees"}

Compiled(op, f) ==
  IF op = "Job.formatWhereCmds" THEN Job_formatWhereCmds(f)
  ELSE Company_formatWhereCmds(f)

\* C8: for both models, a bound field given as 0 or null compiles to the
\* same result as the map without the field.
C8_Stated ==
  FilterCompiled =>
    \A key \in BoundFields(call.op) :
      (HasKey(call.filters, key) /\ Get(call.filters, key) \in {JNum(0), JNull})
        => ret.value = Compiled(call.op, Delete(call.filters, key))

RangeInverted(f) ==
  /\ Get(f, "minEmployees").t = "number"
  /\ Get(f, "maxEmployees").t = "number"
  /\ Get(f, "minEmployees").n > Get(f, "maxEmployees").n

\* C9: Company.findAll with minEmployees and maxEmployees both supplied and
\* minEmployees greater always throws BadRequestError, sends no statement
\* and returns no clause or rows.
C9_InvertedRangeRejected ==
  (call.op = "Company.findAll" /\ RangeInverted(call.filters))
    => ret = Threw("BadRequestError") /\ sent = <<>>

C9_Witness ==
  /\ call.op = "Company.findAll"
  /\ RangeInverted(call.filters)
  /\ ret.state = "threw"
  /\ companies # {}

Privileged(user) == OptGet(user, "isAdmin") = JBool(TRUE)

\* C10: ensureCurrUserOrAdmin refuses, with UnauthorizedError and without
\* calling next, every caller who is not privileged and whose username
\* differs from the route's; it passes every privileged caller, whatever
\* the route's username, and every regular caller named by the route.
C10_SelfOrAdmin ==
  Called("ensureCurrUserOrAdmin") =>
    LET own == OptGet(call.user, "username")
        target == OptGet(call.params, "username")
    IN  /\ (~Privileged(call.user) /\ own # target)
          => (ret.state = "threw" /\ ret.err = "UnauthorizedError"
                /\ ret.nextCalls = 0)
        /\ Privileged(call.user)
          => (ret.state = "returned" /\ ret.nextCalls = 1)
        /\ (call.user.t = "object" /\ ~Privileged(call.user) /\ own = target)
          => (ret.state = "returned" /\ ret.nextCalls = 1)

C10_Witness ==
  /\ Called("ensureCurrUserOrAdmin")
  /\ call.user = JObj(Obj2("username", JStr("u1"), "isAdmin", JBool(FALSE)))
  /\ call.params = JObj(Obj1("username", JStr("u2")))
  /\ ret.state = "threw"

\* The three caller classes: no identity, an identity without the
\* privilege flag, an identity with it.
Anonymous(user) == user = JUndefined

Regular(user) == user.t = "object" /\ ~Privileged(user)

\* C11: ensureAdminLoggedIn calls next for exactly the privileged callers
\* and ensureLoggedIn for exactly the regular and privileged ones; every
\* other caller gets UnauthorizedError and next is not called.
C11_Gates ==
  /\ Called("ensureAdminLoggedIn") =>
        IF Privileged(call.user) THEN ret = Passed
        ELSE ret = Refused("UnauthorizedError")
  /\ Called("ensureLoggedIn") =>
        IF Regular(call.user) \/ Privileged(call.user) THEN ret = Passed
        ELSE ret = Refused("UnauthorizedError")

C11_Witness ==
  /\ Called("ensureAdminLoggedIn")
  /\ Regular(call.user)
  /\ ret = Refused("UnauthorizedError")

\* C13: authenticateJWT never fails a request: with no header, with a
\* token that verifies and with one that does not, it calls next once
\* without an error; res.locals.user becomes the token's payload exactly
\* when the token verifies, and res.locals is otherwise as it was.
C13_NeverFails ==
  Called("authenticateJWT") =>
    /\ ret.state = "returned"
    /\ ret.nextCalls = 1
    /\ IF call.token = testJwt
         THEN ret.locals = Put(call.locals, "user", jwt_verify(testJwt).payload)
         ELSE ret.locals = call.locals

C13_Witness ==
  /\ Called("authenticateJWT")
  /\ call.token = badJwt
  /\ call.locals # <<>>
  /\ ret.locals = call.locals

GatedJobRoutes == {"POST /jobs", "PATCH /jobs/:id", "DELETE /jobs/:id"}

\* C12: POST /jobs, PATCH /jobs/:id and DELETE /jobs/:id invoke Job.create,
\* Job.update and Job.remove only after the admin gate has let the caller
\* through: a request from an anonymous or non-admin caller is answered
\* 401, invokes no repository method, sends no statement and leaves the
\* store as it was.
C12_GateBeforeRepository ==
  [][ /\ (call'.op \in GatedJobRoutes /\ ~Privileged(call'.user))
        => /\ ret'.status = 401
           /\ ret'.repo = <<>>
           /\ sent' = <<>>
           /\ <<jobs, companies, nextId>>' = <<jobs, companies, nextId>>
      /\ (call'.op \in GatedJobRoutes /\ ret'.repo # <<>>)
        => Privileged(call'.user)
    ]_vars

C12_Witness ==
  /\ call.op = "PATCH /jobs/:id"
  /\ Regular(call.user)
  /\ call.body = Obj2("title", JStr("a"), "salary", JNum(2))
  /\ \E j \in jobs : j.id = Number(call.id) /\ j.title # JStr("a")
  /\ ret.status = 401

HasJob(rows, id) == \E j \in rows : j.id = id

HasCompany(rows, handle) == \E c \in rows : c.handle = handle

\* The step is a get, an update with a non-empty payload or a remove whose
\* key matched no row when it was called.
KeyedMiss ==
  \/ /\ call'.op \in {"Job.get", "Job.remove"}
     /\ ~HasJob(jobs, call'.id)
  \/ /\ call'.op = "Job.update"
     /\ call'.data # <<>>
     /\ ~HasJob(jobs, call'.id)
  \/ /\ call'.op \in {"Company.get", "Company.remove"}
     /\ ~HasCompany(companies, call'.handle)
  \/ /\ call'.op = "Company.update"
     /\ call'.data # <<>>
     /\ ~HasCompany(companies, call'.handle)

\* C14: in every reachable store state, get, update with a non-empty
\* payload and remove, called with a key that matches no row, throw
\* NotFoundError and leave the rows of the store exactly as they were.
C14_MissingKeyNotFound ==
  [][ KeyedMiss => /\ ret' = Threw("NotFoundError")
                   /\ jobs' = jobs
                   /\ companies' = companies ]_vars

C14_Witness ==
  /\ call.op = "Company.update"
  /\ call.data # <<>>
  /\ ~HasCompany(companies, call.handle)
  /\ companies # {}
  /\ ret = Threw("NotFoundError")

\* C15: once remove(key) has succeeded the key holds no row, a key that
\* holds no row comes to hold one only by a create that stores it, and
\* while it holds none every get(key) and every remove(key) throws
\* NotFoundError.
C15_RemovedStaysGone ==
  [][ /\ (call'.op = "Job.remove" /\ ret'.state = "returned")
        => ~HasJob(jobs', call'.id)
      /\ (call'.op = "Company.remove" /\ ret'.state = "returned")
        => ~HasCompany(companies', call'.handle)
      /\ \A id \in JobIds :
           (~HasJob(jobs, id) /\ HasJob(jobs', id))
             => /\ call'.op = "Job.create"
                /\ ret'.state = "returned"
                /\ ret'.value.id = id
      /\ \A h \in Handles :
           (~HasCompany(companies, JStr(h)) /\ HasCompany(companies', JStr(h)))
             => /\ call'.op = "Company.create"
                /\ ret'.state = "returned"
                /\ Get(call'.data, "handle") = JStr(h)
      /\ (call'.op \in {"Job.get", "Job.remove"} /\ ~HasJob(jobs, call'.id))
        => ret' = Threw("NotFoundError")
      /\ (call'.op \in {"Company.get", "Company.remove"}
            /\ ~HasCompany(companies, call'.handle))
        => ret' = Threw("NotFoundError")
    ]_vars

C15_Witness ==
  /\ call.op = "Job.remove"
  /\ ret.state = "returned"
  /\ ~HasJob(jobs, call.id)
  /\ jobs # {}

JobAttrs == {"id", "title", "salary", "equity", "companyHandle"}

CompanyAttrs == {"handle", "name", "description", "numEmployees", "logoUrl"}

\* row with the attributes the payload names set to the payload's values
Patched(row, data, attrs) ==
  [a \in attrs |-> IF HasKey(data, a) THEN Get(data, a) ELSE row[a]]

\* C16: a successful update(key, payload) changes, in the row stored under
\* key, exactly the attributes the payload names to the payload's values;
\* the row's other attributes and every other row stay as they were, and
\* the projection returned shows the new values of the updated attributes
\* and the stored values of the others.
C16_UpdateFrame ==
  [][ /\ (call'.op = "Job.update" /\ ret'.state = "returned")
        => \E old \in jobs :
             /\ old.id = call'.id
             /\ jobs' = (jobs \ {old}) \cup {Patched(old, call'.data, JobAttrs)}
             /\ companies' = companies
             /\ ret'.value = Patched(old, call'.data,
                                     {"id", "title", "salary", "equity"})
      /\ (call'.op = "Company.update" /\ ret'.state = "returned")
        => \E old \in companies :
             /\ old.handle = call'.handle
             /\ companies' = (companies \ {old})
                               \cup {Patched(old, call'.data, CompanyAttrs)}
             /\ jobs' = jobs
             /\ ret'.value = Patched(old, call'.data, CompanyAttrs)
    ]_vars

C16_Witness ==
  /\ call.op = "Job.update"
  /\ ret.state = "returned"
  /\ ret.value.title = JStr("a")
  /\ ret.value.equity = JStr("0.5")
  /\ Cardinality(jobs) >= 2

\* The organization a create payload describes.
Described(data) == [a \in CompanyAttrs |-> Get(data, a)]

\* C17: Company.create for a handle that is stored throws BadRequestError,
\* sends no insert and leaves the stored organization as it was; for a
\* handle that is not stored it inserts exactly one organization, with the
\* attributes given, and returns its projection.
C17_CreateOrDuplicate ==
  [][ call'.op = "Company.create" =>
        IF HasCompany(companies, Get(call'.data, "handle"))
          THEN /\ ret' = Threw("BadRequestError")
               /\ \A i \in 1..Len(sent') : sent'[i].text # CompanyInsertSql
               /\ companies' = companies
               /\ jobs' = jobs
          ELSE /\ ret' = Returned(Described(call'.data))
               /\ companies' = companies \cup {Described(call'.data)}
               /\ jobs' = jobs
    ]_vars

C17_Witness ==
  /\ call.op = "Company.create"
  /\ ret = Threw("BadRequestError")
  /\ \E c \in companies :
       /\ c.handle = Get(call.data, "handle")
       /\ c.name # Get(call.data, "name")

\* The postings of rows whose owning handle is handle.
JobsOf(rows, handle) == { j \in rows : j.companyHandle = handle }

\* C19: Company.get right after a successful Company.create of the same
\* handle returns the created handle, name, description, numEmployees and
\* logoUrl with an empty jobs; and whenever Company.get returns, it
\* returns the stored organization with exactly the postings owned by
\* the handle, each once.
C19_CreateGetRoundTrip ==
  [][ /\ (call'.op = "Company.get" /\ ret'.state = "returned")
        => /\ \E c \in companies :
                /\ c.handle = call'.handle
                /\ \A a \in CompanyAttrs : ret'.value[a] = c[a]
           /\ Len(ret'.value.jobs) = Cardinality(JobsOf(jobs, call'.handle))
           /\ { ret'.value.jobs[i] : i \in 1..Len(ret'.value.jobs) }
                = JobsOf(jobs, call'.handle)
      /\ (/\ call.op = "Company.create"
          /\ ret.state = "returned"
          /\ call'.op = "Company.get"
          /\ call'.handle = Get(call.data, "handle"))
        => /\ ret'.state = "returned"
           /\ \A a \in CompanyAttrs : ret'.value[a] = Get(call.data, a)
           /\ ret'.value.jobs = <<>>
    ]_vars

C19_Witness ==
  /\ call.op = "Company.get"
  /\ ret.state = "returned"
  /\ ret.value.jobs = <<>>
  /\ jobs # {}

\* posting satisfies every predicate the filter map f applies
Satisfies(posting, f) ==
  /\ TitlePasses(f)
       => Contains(Lower(posting.title.s), Lower(Get(f, "title").s))
  /\ MinSalaryPasses(f)
       => /\ posting.salary.t = "number"
          /\ posting.salary.n >= Get(f, "minSalary").n
  /\ HasEquityPasses(f)
       => posting.equity.t = "string" /\ posting.equity.s \notin {"0", "0.0"}

\* What the claim says Job.findAll returned: the postings that satisfy the
\* filters, each once, by ascending title.
FoundAsClaimed ==
  /\ ret.state = "returned"
  /\ { ret.value[i] : i \in 1..Len(ret.value) }
       = { x \in JoinedJobs(Db) : Satisfies(x, call.filters) }
  /\ \A i, j \in 1..Len(ret.value) :
       i < j => /\ ret.value[i] # ret.value[j]
                /\ ~TextLess(ret.value[j].title.s, ret.value[i].title.s)

SameShape(f, g) ==
  /\ ObjectKeys(f) = ObjectKeys(g)
  /\ \A i \in 1..Len(f) : Truthy(f[i].v) = Truthy(g[i].v)

\* C20: no filter or update value appears in SQL text: for the filter
\* compilers and sqlForPartialUpdate, an input with the same keys and the
\* same inclusion outcome per field as the one compiled, but other values,
\* compiles to the same clause text.
C20_Stated ==
  /\ Called("Job.formatWhereCmds") =>
       \A g \in JobFilters :
          SameShape(call.filters, g)
            => Job_formatWhereCmds(g).sqlCmd = ret.value.sqlCmd
  /\ Called("Company.formatWhereCmds") =>
       \A g \in CompanyFilters :
          SameShape(call.filters, g)
            => Company_formatWhereCmds(g).sqlCmd = ret.value.sqlCmd
  /\ Called("formatWhereCmds") =>
       \A g \in CompanyFilters :
          SameShape(call.filters, g)
            => formatWhereCmds(g).conditions = ret.value.conditions
  /\ (Called("sqlForPartialUpdate") /\ ret.state = "returned") =>
       \A g \in UpdateMaps :
          ObjectKeys(g) = ObjectKeys(call.dataToUpdate)
            => sqlForPartialUpdate(g, call.jsToSql).setCols = ret.value.setCols

\* C26: ensureCurrUserOrAdmin refuses every anonymous caller, with
\* UnauthorizedError and without calling next, whatever the route
\* parameters are, a request without a username parameter included.
C26_Stated ==
  (Called("ensureCurrUserOrAdmin") /\ Anonymous(call.user))
    => ret = Refused("UnauthorizedError")

\* The keys each model's filter compiler is documented to recognize.
RecognizedKeys(op) ==
  IF op = "Job.formatWhereCmds" THEN {"title", "minSalary", "hasEquity"}
  ELSE {"nameLike", "minEmployees", "maxEmployees"}

\* C27: for both models, a filter map with a key the compiler does not
\* recognize compiles to the same clause and the same values as the map
\* without that key.
C27_Stated ==
  FilterCompiled =>
    \A i \in 1..Len(call.filters) :
      call.filters[i].k \notin RecognizedKeys(call.op)
        => ret.value = Compiled(call.op, Delete(call.filters, call.filters[i].k))

\* The update calls and the key each was given.
Updates == {"Job.update", "Company.update"}

KeyOf(c) == IF c.op = "Job.update" THEN c.id ELSE c.handle

KeyPredicate(op) ==
  IF op = "Job.update" THEN " WHERE id = $" ELSE " WHERE handle = $"

\* How many times the placeholder $d stands in text, $d followed by a
\* further digit being another placeholder.
PlaceholderCount(text, d) ==
  LET ph == "$" \o ToString(d)
      digits == { ToString(k) : k \in 0..9 }
  IN  Cardinality(
        { i \in 1..Len(text) :
            /\ i + Len(ph) - 1 <= Len(text)
            /\ SubSeq(text, i, i + Len(ph) - 1) = ph
            /\ (i + Len(ph) <= Len(text)
                  => SubSeq(text, i + Len(ph), i + Len(ph)) \notin digits) })

\* C23: an update with n >= 1 provided keys sends one statement whose key
\* predicate uses placeholder $(n+1) and whose parameters are the n payload
\* values in payload order followed by the key; the statement holds each of
\* $1..$(n+1) exactly once and no other placeholder.
C23_KeyPlaceholderLast ==
  (call.op \in Updates /\ ret # Pending /\ Len(call.data) >= 1) =>
    LET n == Len(call.data)
        text == sent[1].text
    IN  /\ Len(sent) = 1
        /\ sent[1].params = JArr(ObjectValues(call.data) \o <<KeyOf(call)>>)
        /\ Contains(text, KeyPredicate(call.op) \o ToString(n + 1) \o " ")
        /\ \A d \in 1..(n + 1) : PlaceholderCount(text, d) = 1
        /\ Cardinality({ i \in 1..Len(text) : SubSeq(text, i, i) = "$" })
             = n + 1

C23_Witness ==
  /\ Called("Company.update")
  /\ Len(call.data) = 3
  /\ ret.state = "returned"
  /\ Len(sent[1].params.a) = 4

\* The calls of the two repositories, and those documented to make two
\* round trips.
RepositoryCalls ==
  { "Job.create", "Job.findAll", "Job.get", "Job.update", "Job.remove",
    "Company.create", "Company.findAll", "Company.get", "Company.update",
    "Company.remove" }

TwoTrips == {"Job.get", "Company.get", "Company.create"}

\* C25 as stated: every repository call sends exactly one statement to
\* the store, except Job.get, Company.get and Company.create, which send
\* exactly two.
C25_Stated ==
  (call.op \in RepositoryCalls /\ ret # Pending)
    => Len(sent) = IF call.op \in TwoTrips THEN 2 ELSE 1

\* The numbers of statements a finished call may have sent.
RoundTrips(c, r) ==
  IF c.op \in Updates /\ c.data = <<>> THEN {0}
  ELSE IF c.op = "Company.findAll" /\ RangeInverted(c.filters) THEN {0}
  ELSE IF c.op \in {"Job.get", "Company.get"} THEN
    IF r.state = "returned" THEN {2}
    ELSE IF r = Threw("NotFoundError") THEN {1}
    ELSE {1, 2}
  ELSE IF c.op = "Company.create" THEN
    IF r.state = "returned" THEN {2}
    ELSE IF r = Threw("BadRequestError") THEN {1}
    ELSE {1, 2}
  ELSE {1}

\* C25, amended: a repository call sends at most one statement, get and
\* Company.create at most two (the primary read, then the dependent read;
\* the existence check, then the insert), and a call that returns sends
\* exactly that many.  update with an empty payload and Company.findAll
\* with an inverted range send none; get of a key that matches no row and
\* Company.create of a stored handle send only the first of the two.
C25_Amended ==
  (call.op \in RepositoryCalls /\ ret # Pending) =>
    /\ Len(sent) \in RoundTrips(call, ret)
    /\ (call.op = "Job.get" /\ Len(sent) = 2)
         => sent[1].text = JobGetSql /\ sent[2].text = JobCompanySql
    /\ (call.op = "Company.get" /\ Len(sent) = 2)
         => sent[1].text = CompanyGetSql /\ sent[2].text = CompanyJobsSql
    /\ (call.op = "Company.create" /\ Len(sent) >= 1)
         => /\ sent[1].text = CompanyCheckSql
            /\ Len(sent) = 2 => sent[2].text = CompanyInsertSql

C25_Witness ==
  /\ Called("Company.create")
  /\ ret = Threw("BadRequestError")
  /\ Len(sent) = 1

\* The keys a table holds.
IdsOf(rows) == { r.id : r \in rows }

HandlesOf(rows) == { r.handle : r \in rows }

CreateEnds ==
  /\ call'.op = "Company.create"
  /\ \/ /\ inflight' = inflight
        /\ <<call, ret, sent>>' # <<call, ret, sent>>
     \/ \E t \in DOMAIN inflight :
          /\ inflight[t].pc = "Company.create: insert"
          /\ inflight'[t].pc = "idle"

\* C22: however the statements of concurrent Company.create calls for one
\* handle interleave, each call either returns the stored projection, the
\* store not having held the handle, or fails with BadRequestError, and
\* the store then holds exactly one organization with that handle.
C22_Stated ==
  [][ CreateEnds =>
        LET handle == Get(call'.data, "handle")
        IN  /\ \/ /\ ret' = Returned(Described(call'.data))
                  /\ ~HasCompany(companies, handle)
                  /\ Described(call'.data) \in companies'
               \/ /\ ret' = Threw("BadRequestError")
                  /\ companies' = companies
            /\ Cardinality({ c \in companies' : c.handle = handle }) = 1
    ]_vars

\* The step ends the Job.get, or the Company.get, that caller t has in
\* flight.
JobGetEnds(t) ==
  inflight[t].pc = "Job.get: company" /\ inflight'[t].pc = "idle"

CompanyGetEnds(t) ==
  inflight[t].pc = "Company.get: jobs" /\ inflight'[t].pc = "idle"

\* C24: whatever other calls run between the two reads of a get, the get
\* returns.  Job.get returns the posting its primary read found, with the
\* owning organization as the dependent read finds it and with an absent
\* company field when that row is gone; Company.get returns the
\* organization its primary read found with the postings the dependent
\* read finds, an empty sequence when there are none.
C24_MissingDependentsTolerated ==
  [][ \A t \in DOMAIN inflight :
        /\ JobGetEnds(t) =>
             LET job == inflight[t].row
                 owners == { c \in companies : c.handle = job.companyHandle }
             IN  /\ ret'.state = "returned"
                 /\ call' = [op |-> "Job.get", id |-> job.id]
                 /\ \A a \in JobAttrs : ret'.value[a] = job[a]
                 /\ IF owners = {} THEN ret'.value.company = JUndefined
                    ELSE \E c \in owners :
                           ret'.value.company
                             = [a \in {"name", "numEmployees", "description",
                                       "logoUrl"} |-> c[a]]
        /\ CompanyGetEnds(t) =>
             LET company == inflight[t].row
                 owned == JobsOf(jobs, company.handle)
             IN  /\ ret'.state = "returned"
                 /\ call' = [op |-> "Company.get", handle |-> company.handle]
                 /\ \A a \in CompanyAttrs : ret'.value[a] = company[a]
                 /\ Len(ret'.value.jobs) = Cardinality(owned)
                 /\ { ret'.value.jobs[i] : i \in 1..Len(ret'.value.jobs) }
                      = owned
    ]_vars

C24_Witness ==
  /\ Called("Job.get")
  /\ ret.state = "returned"
  /\ ret.value.company = JUndefined
  /\ ~HasJob(jobs, call.id)

====
